---- MODULE Spec2Model ----
(***************************************************************************)
(* State-machine model of the coin ledger (useUserCoins), the episode      *)
(* unlock gate (useEpisodeUnlocks, MovieDetailPage.handleUnlockEpisode),   *)
(* the retry wrapper (withRetry) and the toast queue (ErrorContext).       *)
(*                                                                         *)
(* The specifications share the variables:                                 *)
(*   Spec        one session running every operation of the two hooks and  *)
(*               of handleUnlockEpisode, with the toast queue              *)
(*   SpecShared  two sessions, each with its own in-memory balance,        *)
(*               running the coin ledger against one user_balances row     *)
(*   SpecRetry   one withRetry invocation with arbitrary options           *)
(***************************************************************************)
EXTENDS Integers, Sequences, FiniteSets, TLC

VARIABLES
  \* ---- backing database ----
  dbBalance,          \* the user's user_balances row: [coins, bonus_coins]
  dbUnlocks,          \* user_episode_unlocks: movie_id -> number of rows of the user
  \* ---- per session (one mounted hook instance each) ----
  userId,             \* session -> TRUE when the hook was given a user id
  balance,            \* session -> useState<UserBalance | null>
  unlockedEpisodes,   \* session -> useState<Set<number>>
  pc,                 \* session -> the remote call the session awaits, or "idle"
  ctx,                \* session -> the arguments captured by the running call
  ret,                \* session -> what the last finished call returned
  \* ---- process wide ----
  errors,             \* ErrorContext: the toast queue
  errorsObserved,     \* FALSE in the specifications that leave the toast queue out
  timers,             \* the expiry timers addError has scheduled and that have not fired
  timersObserved,     \* FALSE in the specifications that leave the expiry timers out
  \* ---- a free-standing withRetry invocation (SpecRetry) ----
  rOptions,           \* the options object handed to withRetry
  rState,             \* the loop state
  rLog,               \* outcome of every invocation of the operation, in order
  \* ---- watchlist ----
  dbWatchlist,        \* user_watchlist: movie_id -> the category_id of the user's row, or no row
  dbCategories,       \* user_watchlist_categories: the ids of the user's categories
  watchlist,          \* session -> useState<MovieWithProgress[]>, as ids with their category
  watchlistIds,       \* session -> useState<Set<number>>
  categories,         \* session -> useState<UserWatchlistCategory[]>, as ids
  \* ---- watch history ----
  dbHistory,          \* user_watch_history: movie_id -> the user's rows of the movie
  continueWatching,   \* session -> useState<MovieWithProgress[]>, as rows by movie id
  \* ---- comments ----
  dbComments,         \* movie_comments of the movie shown: comment id -> row
  comments,           \* session -> useState<MovieComment[]>, as comment ids
  authUid,            \* session -> auth.uid() of its Supabase session, or anon
  \* ---- video player ----
  player,             \* VideoPlayer: its state, its two timer refs and the timers pending
  \* ---- the App component ----
  app,                \* its modal, catalog and search state, and its requests in flight
  \* ---- every data hook ----
  hookStatus,         \* session -> hook -> its `loading` and `error` state
  statusObserved      \* FALSE in the specifications that leave `loading` and `error` out

ledgerVars == <<dbBalance, dbUnlocks, userId, balance, unlockedEpisodes, pc, ctx, ret, errors, errorsObserved,
               timers, timersObserved, hookStatus, statusObserved>>
retryVars == <<rOptions, rState, rLog>>
coinVars == <<dbBalance, dbUnlocks, balance, unlockedEpisodes>>
watchVars == <<dbWatchlist, dbCategories, watchlist, watchlistIds, categories>>
\* What the coin ledger and the unlock gate leave alone, what the watchlist hooks
\* leave alone.
historyVars == <<dbHistory, continueWatching>>
commentVars == <<dbComments, comments, authUid>>
offLedger == <<retryVars, watchVars, historyVars, commentVars, player, app>>
offWatchlist == <<coinVars, userId, errorsObserved, timersObserved, statusObserved, retryVars, historyVars, commentVars, player, app>>
offHistory == <<coinVars, userId, errorsObserved, timersObserved, statusObserved, retryVars, watchVars, commentVars, player, app>>
offComments == <<coinVars, userId, errorsObserved, timersObserved, statusObserved, retryVars, watchVars, historyVars, authUid, player, app>>
vars == <<dbBalance, dbUnlocks, userId, balance, unlockedEpisodes, pc, ctx, ret, errors, errorsObserved,
          timers, timersObserved, hookStatus, statusObserved, rOptions, rState, rLog,
          dbWatchlist, dbCategories, watchlist, watchlistIds, categories,
          dbHistory, continueWatching, dbComments, comments, authUid, player, app>>

----------------------------------------------------------------------------
(* Bounds of the model *)

MaxCap == 4         \* withRetry caps 0..MaxCap are explored in SpecRetry
MaxCoins == 2       \* coins and bonus_coins range over 0..MaxCoins each
MaxToasts == 2      \* the toast queue holds at most MaxToasts entries
MaxTimers == 3      \* at most MaxTimers expiry timers are pending
MaxComments == 1    \* at most MaxComments comments are ever posted

Min(a, b) == IF a <= b THEN a ELSE b

Pow2(n) == IF n <= 0 THEN 1 ELSE 2 ^ n

\* An optional value (JS undefined / null) is the empty sequence, a present one <<v>>.
Undefined == <<>>
Some(v) == <<v>>
Get(o) == o[1]

NoError == "none"
NoValue == "none"

----------------------------------------------------------------------------
(* utils/errorHandling.ts: withRetry *)

DefaultMaxRetries == 3
DefaultDelay == 1000
DefaultBackoff == TRUE

defaultRetryOptions ==
  [maxRetries |-> DefaultMaxRetries, delay |-> DefaultDelay, backoff |-> DefaultBackoff]

\* const { maxRetries = 3, delay = 1000, backoff = true } = options
ResolveOptions(options) ==
  [maxRetries |-> IF options.maxRetries = Undefined THEN DefaultMaxRetries ELSE Get(options.maxRetries),
   delay      |-> IF options.delay = Undefined THEN DefaultDelay ELSE Get(options.delay),
   backoff    |-> IF options.backoff = Undefined THEN DefaultBackoff ELSE Get(options.backoff)]

\* The outcome of one `await operation()`
Resolved(v) == [ok |-> TRUE, value |-> v, error |-> NoError]
Thrown(e) == [ok |-> FALSE, value |-> NoValue, error |-> e]

\* The loop state before the first iteration: attempt = 0, lastError unset.
RetryStart ==
  [attempt |-> 0, lastError |-> NoError, status |-> "running", value |-> NoValue, waits |-> <<>>]

\* Mutant of CurrentDelay: the wait grows linearly, delay * (attempt + 1).
CurrentDelay_Linear(opts, attempt) ==
  IF opts.backoff THEN opts.delay * (attempt + 1) ELSE opts.delay

\* const currentDelay = backoff ? delay * Math.pow(2, attempt) : delay
CurrentDelay(opts, attempt) ==
  IF opts.backoff THEN opts.delay * Pow2(attempt) ELSE opts.delay

\* Mutant of WithRetryStep: lastError is assigned only while unset, so the first
\* error is the one rethrown.
WithRetryStep_KeepsFirstError(r, opts, outcome) ==
  IF outcome.ok
    THEN [r EXCEPT !.status = "resolved", !.value = outcome.value]
    ELSE LET e == IF r.lastError = NoError THEN outcome.error ELSE r.lastError IN
      IF r.attempt = opts.maxRetries
        THEN [r EXCEPT !.lastError = e, !.status = "rejected"]
        ELSE [r EXCEPT !.lastError = e,
                       !.attempt = @ + 1,
                       !.waits = Append(@, CurrentDelay(opts, r.attempt))]

\* Mutant of WithRetryStep: a validation error is rethrown at once, not retried.
WithRetryStep_NoRetryOnValidation(r, opts, outcome) ==
  IF outcome.ok
    THEN [r EXCEPT !.status = "resolved", !.value = outcome.value]
    ELSE IF r.attempt = opts.maxRetries \/ outcome.error = "validation"
      THEN [r EXCEPT !.lastError = outcome.error, !.status = "rejected"]
      ELSE [r EXCEPT !.lastError = outcome.error,
                     !.attempt = @ + 1,
                     !.waits = Append(@, CurrentDelay(opts, r.attempt))]

\* One iteration of the for loop, given what `await operation()` produced:
\* return on success; on a throw remember the error, break on the last attempt
\* (the throw after the loop rejects with lastError), otherwise wait and go on.
WithRetryStep(r, opts, outcome) ==
  IF outcome.ok
    THEN [r EXCEPT !.status = "resolved", !.value = outcome.value]
    ELSE IF r.attempt = opts.maxRetries
      THEN [r EXCEPT !.lastError = outcome.error, !.status = "rejected"]
      ELSE [r EXCEPT !.lastError = outcome.error,
                     !.attempt = @ + 1,
                     !.waits = Append(@, CurrentDelay(opts, r.attempt))]

\* withRetry run to its end over the outcomes the successive invocations of the
\* operation produce.
RECURSIVE WithRetry(_, _, _)
WithRetry(r, opts, outcomes) ==
  IF r.status # "running" \/ outcomes = <<>>
    THEN r
    ELSE WithRetry(WithRetryStep(r, opts, Head(outcomes)), opts, Tail(outcomes))

----------------------------------------------------------------------------
(* contexts/ErrorContext.tsx and utils/errorHandling.ts: the toast queue *)

\* createErrorMessage(message, type, retryAction): `retry` names the callback
\* the toast carries ("none" when it has none).
createErrorMessage(type, retryAction) ==
  [type |-> type, retry |-> retryAction,
   duration |-> IF type = "success" THEN 3000 ELSE 5000]

\* The ids of the entries of a queue, the ids pending timers hold.
Ids(queue) == {queue[i].id : i \in 1..Len(queue)}
TimerIds(tm) == {t.id : t \in tm}

\* The id of a new toast is Date.now() followed by a random suffix: an id that
\* no entry of the queue and no pending timer holds. Ids are only ever compared
\* for equality, so the least such number stands for it.
FreshId(queue, tm) ==
  LET used == Ids(queue) \cup TimerIds(tm)
  IN  CHOOSE id \in 1..(Cardinality(used) + 1) :
        id \notin used /\ \A j \in 1..(id - 1) : j \in used

newError_NoDefault(id, error) ==
  [id |-> id, type |-> error.type, retry |-> error.retry, duration |-> error.duration]

\* addError: the entry gets the id and `duration || 5000` ...
newError(id, error) ==
  [id |-> id, type |-> error.type, retry |-> error.retry,
   duration |-> IF error.duration = 0 THEN 5000 ELSE error.duration]

\* ... it is appended at the end of the queue ...
addError(queue, id, error) == Append(queue, newError(id, error))

\* ... and a timer is set that calls removeError(id) once the duration has
\* passed. `after` is the time left until the timer is due. The handle
\* setTimeout returns is dropped: nothing ever clears the timer.
setTimeout(tm, toast) ==
  IF toast.duration > 0
    THEN tm \cup {[id |-> toast.id, after |-> toast.duration]}
    ELSE tm

removeError_DropsLast(queue, id) ==
  IF queue = <<>> THEN queue ELSE SubSeq(queue, 1, Len(queue) - 1)

\* removeError(id): filter the entry out, keep the others in order.
removeError(queue, id) == SelectSeq(queue, LAMBDA e : e.id # id)

\* clearAllErrors: the queue is emptied.
clearAllErrors(queue) == <<>>

\* Toasts added one after the other: the queue and the timers afterwards.
RECURSIVE addErrors(_, _, _)
addErrors(queue, tm, es) ==
  IF es = <<>>
    THEN [errors |-> queue, timers |-> tm]
    ELSE LET id == FreshId(queue, tm)
         IN  addErrors(addError(queue, id, Head(es)),
                       setTimeout(tm, newError(id, Head(es))), Tail(es))

----------------------------------------------------------------------------
(* components/VideoPlayer.tsx: the state the two timers depend on *)

\* No VideoPlayer is mounted: no state, no ref, no timer.
Unmounted ==
  [mounted |-> FALSE, isPlaying |-> FALSE, duration |-> 0, showControls |-> FALSE,
   progressUpdateIntervalRef |-> 0, intervals |-> {},
   controlsTimeoutRef |-> 0, timeouts |-> {}, reported |-> FALSE]

\* The App component with the initial values of its state: no movie selected (0
\* stands for null), neither modal shown, the catalog empty and loading, no
\* search; no request in flight, no timer pending, no Retry toast of a catalog
\* load or search shown. `movies` holds the catalog as the page numbers its
\* items came from, `filteredMovies` the search results as the query and
\* filters they were computed for. `stable` measures the time since the query
\* or a filter last changed, up to the debounce delay, and `lastSearch` is the
\* remote search issued last.
AppIdle ==
  [selectedMovie |-> 0, showVideoPlayer |-> FALSE,
   selectedMovieForDetails |-> 0, showMovieDetails |-> FALSE,
   currentPage |-> "home",
   movies |-> <<>>, page |-> 1, hasMoreMovies |-> TRUE, loadingMoreMovies |-> FALSE,
   moviesLoading |-> TRUE, moviesError |-> FALSE,
   loads |-> {}, retries |-> {},
   searchQuery |-> "", filters |-> "All", filteredMovies |-> <<>>,
   searchLoading |-> FALSE, searchError |-> FALSE,
   searchTimers |-> {}, searches |-> {}, searchRetries |-> {},
   stable |-> 0, lastSearch |-> <<>>]

----------------------------------------------------------------------------
(* hooks/useUserCoins.ts, hooks/useEpisodeUnlocks.ts and
   components/MovieDetailPage.tsx: handleUnlockEpisode *)

Sessions == {"s1", "s2"}

\* The data hooks, and the `loading` and `error` state each of them starts with:
\* useState(false), useState<string | null>(null).
Hooks == {"useUserCoins", "useEpisodeUnlocks", "useWatchlist", "useWatchlistCategories",
          "useWatchHistory", "useMovieComments"}
HookIdle == [loading |-> FALSE, error |-> Undefined]

\* setLoading and setError of a hook.
SetStatus(s, hook, status) ==
  IF statusObserved
    THEN hookStatus' = [hookStatus EXCEPT ![s][hook] = status]
    ELSE UNCHANGED hookStatus

\* getErrorMessage(err) of the errors a remote call can end with, as the words the
\* handler looks for.
getErrorMessage(err) ==
  CASE err = "duplicate" -> {"duplicate", "key", "value", "violates", "unique", "constraint"}
    [] err = "network" -> {"failed", "to", "fetch"}
    [] OTHER -> {"an", "unexpected", "error", "occurred"}

FetchEnds_StaysLoading(s, hook, failed, err) ==
  SetStatus(s, hook, [loading |-> failed,
                      error |-> IF failed THEN Some(getErrorMessage(err))
                                ELSE hookStatus[s][hook].error])

\* A fetch is over. The catch block has run setError(getErrorMessage(err)) when
\* it failed, and the finally block setLoading(false).
FetchEnds(s, hook, failed, err) ==
  SetStatus(s, hook, [loading |-> FALSE,
                      error |-> IF failed THEN Some(getErrorMessage(err))
                                ELSE hookStatus[s][hook].error])

\* setError alone, in the catch block of a mutation.
SetError(s, hook, err) ==
  SetStatus(s, hook, [hookStatus[s][hook] EXCEPT !.error = err])

\* A fetch starts: setLoading(true), setError(null).
FetchStarts(s, hook) == SetStatus(s, hook, [loading |-> TRUE, error |-> Undefined])

\* The locked episodes of the series shown, by movie id, and their
\* movies.unlock_cost: episode 1 costs one coin, episode 2 has no cost set.
Episodes == {1, 2}
unlock_cost(m) == IF m = 1 THEN 1 ELSE 0

Row(c, b) == [coins |-> c, bonus_coins |-> b]
Total(row) == row.coins + row.bonus_coins

\* What a running call holds: the function called first (`flow`), its amount
\* and movie id, the `balance` of the render it was called from (`seen`), the
\* values handed to updateBalance, handleUnlockEpisode's `confirmed` and
\* `coinsDeducted`, and
\* the error its remote call was rejected with. It stays readable after the
\* call returned, until the session's next call.
Call(flow, amount, movieId, seen) ==
  [flow |-> flow, amount |-> amount, movieId |-> movieId, seen |-> seen,
   newCoins |-> 0, newBonusCoins |-> 0, coinsDeducted |-> FALSE, error |-> NoError,
   categoryId |-> "null", progressSeconds |-> 0, totalDurationSeconds |-> 0,
   retry |-> RetryStart, commentId |-> 0, userIdArg |-> "none", commentText |-> "none",
   name |-> "none", confirmed |-> FALSE]
NoCall == Call("none", 0, 0, Undefined)

\* Mutant of canAfford: the total must exceed the cost.
canAfford_Strict(s, cost) ==
  IF balance[s] = Undefined THEN FALSE
  ELSE Total(Get(balance[s])) > cost

\* Mutant of canAfford: every cost is affordable.
canAfford_Always(s, cost) == TRUE

\* canAfford(cost)
canAfford(s, cost) ==
  IF balance[s] = Undefined THEN FALSE
  ELSE Total(Get(balance[s])) >= cost

\* Mutant of Insufficient: the check lets an amount one above the total pass.
Insufficient_OffByOne(row, coinsToSpend) == Total(row) + 1 < coinsToSpend

\* spendCoins, the affordability check: totalAvailable < coinsToSpend
Insufficient(row, coinsToSpend) == Total(row) < coinsToSpend

\* Mutant of SpendSplit: regular coins are spent first, bonus coins after.
SpendSplit_CoinsFirst(row, coinsToSpend) ==
  LET fromCoins == IF coinsToSpend > 0 /\ row.coins > 0
                     THEN Min(coinsToSpend, row.coins) ELSE 0
      remaining == coinsToSpend - fromCoins
  IN Row(row.coins - fromCoins,
         IF remaining > 0 THEN row.bonus_coins - remaining ELSE row.bonus_coins)

\* Mutant of SpendSplit: the whole amount is taken from the bonus coins, without
\* the Math.min.
SpendSplit_NoMin(row, coinsToSpend) ==
  IF coinsToSpend > 0 /\ row.bonus_coins > 0
    THEN Row(row.coins, row.bonus_coins - coinsToSpend)
    ELSE Row(IF coinsToSpend > 0 THEN row.coins - coinsToSpend ELSE row.coins,
             row.bonus_coins)

\* spendCoins, the split: bonus coins first, the remainder from regular coins.
SpendSplit(row, coinsToSpend) ==
  LET bonusToSpend == IF coinsToSpend > 0 /\ row.bonus_coins > 0
                        THEN Min(coinsToSpend, row.bonus_coins) ELSE 0
      newBonusCoins == row.bonus_coins - bonusToSpend
      remaining == coinsToSpend - bonusToSpend
      newCoins == IF remaining > 0 THEN row.coins - remaining ELSE row.coins
  IN Row(newCoins, newBonusCoins)

\* What the network lets the successive attempts of one remote call do: reach
\* the database (TRUE) or fail on the way (FALSE). withRetry makes at most
\* maxRetries + 1 attempts.
Networks == [1..(DefaultMaxRetries + 1) -> BOOLEAN]

\* A remote call under withRetry with the default options: every attempt that
\* reaches the database gets `response`, the others throw a network error.
RemoteCall(network, response) ==
  WithRetry(RetryStart, defaultRetryOptions,
            [i \in 1..(DefaultMaxRetries + 1) |->
               IF network[i] THEN response ELSE Thrown("network")])

\* The ways the remote call can settle, over all networks: resolved, or
\* rejected with its last error.
SettlementsOf(response) ==
  {[status |-> r.status, lastError |-> r.lastError] :
     r \in {RemoteCall(network, response) : network \in Networks}}

\* The responses the database gives in this model, and how a call can settle on each.
Responses ==
  {Resolved("ok"), Thrown("duplicate"), Thrown("foreign key"), Thrown("row-level security")}
SettlementTable == [response \in Responses |-> SettlementsOf(response)]
Settlements(response) == SettlementTable[response]

\* The session's running call goes on to await the remote call `nextPc`.
Await(s, nextPc, c) ==
  /\ pc' = [pc EXCEPT ![s] = nextPc]
  /\ ctx' = [ctx EXCEPT ![s] = c]

\* The session's running call returns `r`.
Return(s, r, c) ==
  /\ pc' = [pc EXCEPT ![s] = "idle"]
  /\ ctx' = [ctx EXCEPT ![s] = c]
  /\ ret' = [ret EXCEPT ![s] = r]

\* The hooks only ever add to the toast queue. Where the queue is observed
\* toasts are added while it holds at most MaxToasts entries afterwards (and,
\* where the timers are observed, at most MaxTimers timers are pending); where
\* it is left out the toasts are taken to have expired already.
Toasts(es) ==
  IF errorsObserved
    THEN LET after == addErrors(errors, timers, es)
         IN  /\ Len(errors) + Len(es) <= MaxToasts
             /\ errors' = after.errors
             /\ IF timersObserved
                  THEN Cardinality(timers) + Len(es) <= MaxTimers /\ timers' = after.timers
                  ELSE UNCHANGED timers
    ELSE UNCHANGED <<errors, timers>>

Toast(e) == Toasts(<<e>>)

\* fetchBalance: without a user the balance is reset at once, otherwise the
\* select is issued under withRetry.
fetchBalance(s) ==
  /\ pc[s] = "idle"
  /\ IF ~userId[s]
       THEN /\ balance' = [balance EXCEPT ![s] = Undefined]
            /\ UNCHANGED <<pc, ctx, hookStatus>>
       ELSE /\ FetchStarts(s, "useUserCoins")
            /\ Await(s, "fetchBalance", Call("fetchBalance", 0, 0, Undefined))
            /\ UNCHANGED balance
  /\ UNCHANGED <<dbBalance, dbUnlocks, userId, unlockedEpisodes, ret, errorsObserved, timersObserved, statusObserved, offLedger>>

\* fetchBalance called by the hook's effect or by a component.
FetchBalance(s) == fetchBalance(s) /\ UNCHANGED <<errors, timers>>

\* fetchBalance from the select on: on success setBalance(data), once the
\* retries are used up an error toast and setBalance(null).
FetchBalanceSettle(s) ==
  /\ pc[s] = "fetchBalance"
  /\ \E r \in Settlements(Resolved("ok")) :
       /\ IF r.status = "resolved"
         THEN /\ balance' = [balance EXCEPT ![s] = Some(dbBalance)]
              /\ Return(s, ret[s], ctx[s])
              /\ UNCHANGED <<errors, timers>>
         ELSE /\ Toast(createErrorMessage("error", "fetchBalance"))
              /\ balance' = [balance EXCEPT ![s] = Undefined]
              /\ Return(s, ret[s], [ctx[s] EXCEPT !.error = r.lastError])
       /\ FetchEnds(s, "useUserCoins", r.status # "resolved", r.lastError)
  /\ UNCHANGED <<dbBalance, dbUnlocks, userId, unlockedEpisodes, errorsObserved, timersObserved, statusObserved, offLedger>>

\* updateBalance(newCoins, newBonusCoins) up to the first await: false without a
\* user, otherwise the update is issued under withRetry.
updateBalance(s, c) ==
  IF ~userId[s]
    THEN Return(s, "false", c)
    ELSE /\ Await(s, "updateBalance", c)
         /\ UNCHANGED ret

\* addCoins(coinsToAdd, bonusCoinsToAdd)
AddCoins(s, coinsToAdd, bonusCoinsToAdd) ==
  /\ pc[s] = "idle"
  /\ IF balance[s] = Undefined
       THEN Return(s, "false", Call("addCoins", 0, 0, balance[s]))
       ELSE LET row == Get(balance[s])
                newCoins == row.coins + coinsToAdd
                newBonusCoins == row.bonus_coins + bonusCoinsToAdd
            IN /\ newCoins <= MaxCoins
               /\ newBonusCoins <= MaxCoins
               /\ updateBalance(s, [Call("addCoins", 0, 0, balance[s]) EXCEPT
                                      !.newCoins = newCoins, !.newBonusCoins = newBonusCoins])
  /\ UNCHANGED <<dbBalance, dbUnlocks, userId, balance, unlockedEpisodes, errors, timers, errorsObserved, timersObserved, hookStatus, statusObserved, offLedger>>

\* spendCoins(coinsToSpend) up to the first await, called with the call record `c`.
spendCoins(s, coinsToSpend, c) ==
  IF balance[s] = Undefined
    THEN /\ Return(s, "false", c)
         /\ UNCHANGED <<errors, timers>>
    ELSE IF Insufficient(Get(balance[s]), coinsToSpend)
      THEN /\ Toast(createErrorMessage("warning", "none"))
           /\ Return(s, "false", c)
      ELSE LET new == SpendSplit(Get(balance[s]), coinsToSpend)
           IN /\ updateBalance(s, [c EXCEPT !.newCoins = new.coins,
                                            !.newBonusCoins = new.bonus_coins])
              /\ UNCHANGED <<errors, timers>>

SpendCoins(s, coinsToSpend) ==
  /\ pc[s] = "idle"
  /\ spendCoins(s, coinsToSpend, Call("spendCoins", coinsToSpend, 0, balance[s]))
  /\ UNCHANGED <<dbBalance, dbUnlocks, userId, balance, unlockedEpisodes, errorsObserved, timersObserved, hookStatus, statusObserved, offLedger>>

\* A caller evaluates canAfford(cost): the call computes its answer from the
\* balance of the current render and returns it.
CanAfford(s, cost) ==
  /\ pc[s] = "idle"
  /\ Return(s, IF canAfford(s, cost) THEN "true" ELSE "false",
            Call("canAfford", cost, 0, balance[s]))
  /\ UNCHANGED <<dbBalance, dbUnlocks, userId, balance, unlockedEpisodes, errors, timers, errorsObserved, timersObserved, hookStatus, statusObserved, offLedger>>

\* fetchUnlockedEpisodes: without a user the set is emptied at once, otherwise
\* the select is issued under withRetry.
FetchUnlockedEpisodes(s) ==
  /\ pc[s] = "idle"
  /\ IF ~userId[s]
       THEN /\ unlockedEpisodes' = [unlockedEpisodes EXCEPT ![s] = {}]
            /\ UNCHANGED <<pc, ctx, hookStatus>>
       ELSE /\ FetchStarts(s, "useEpisodeUnlocks")
            /\ Await(s, "fetchUnlockedEpisodes", Call("fetchUnlockedEpisodes", 0, 0, Undefined))
            /\ UNCHANGED unlockedEpisodes
  /\ UNCHANGED <<dbBalance, dbUnlocks, userId, balance, ret, errors, timers, errorsObserved, timersObserved, statusObserved, offLedger>>

\* fetchUnlockedEpisodes from the select on.
FetchUnlockedEpisodesSettle(s) ==
  /\ pc[s] = "fetchUnlockedEpisodes"
  /\ \E r \in Settlements(Resolved("ok")) :
       /\ IF r.status = "resolved"
         THEN /\ unlockedEpisodes' =
                   [unlockedEpisodes EXCEPT ![s] = {m \in Episodes : dbUnlocks[m] > 0}]
              /\ Return(s, ret[s], ctx[s])
              /\ UNCHANGED <<errors, timers>>
         ELSE /\ Toast(createErrorMessage("error", "fetchUnlockedEpisodes"))
              /\ unlockedEpisodes' = [unlockedEpisodes EXCEPT ![s] = {}]
              /\ Return(s, ret[s], [ctx[s] EXCEPT !.error = r.lastError])
       /\ FetchEnds(s, "useEpisodeUnlocks", r.status # "resolved", r.lastError)
  /\ UNCHANGED <<dbBalance, dbUnlocks, userId, balance, errorsObserved, timersObserved, statusObserved, offLedger>>

\* Mutant of unlockEpisode: the insert is issued without looking at the cached set.
unlockEpisode_NoCacheCheck(s, c) ==
  IF ~userId[s]
    THEN /\ Toast(createErrorMessage("warning", "none"))
         /\ Return(s, "false", c)
    ELSE /\ Await(s, "insertUnlock", c)
         /\ UNCHANGED <<ret, errors, timers>>

\* unlockEpisode(movieId, unlockCost) up to the first await: a warning without a
\* user, an info toast and true on a cache hit, otherwise the insert is issued
\* under withRetry.
unlockEpisode(s, c) ==
  IF ~userId[s]
    THEN /\ Toast(createErrorMessage("warning", "none"))
         /\ Return(s, "false", c)
    ELSE IF c.movieId \in unlockedEpisodes[s]
      THEN /\ Toast(createErrorMessage("info", "none"))
           /\ Return(s, "true", c)
      ELSE /\ Await(s, "insertUnlock", c)
           /\ UNCHANGED <<ret, errors, timers>>

\* The hook's unlockEpisode called on its own (as the Retry button of its
\* error toast does).
UnlockEpisode(s, movieId) ==
  /\ pc[s] = "idle"
  /\ unlockEpisode(s, Call("unlockEpisode", unlock_cost(movieId), movieId, Undefined))
  /\ UNCHANGED <<dbBalance, dbUnlocks, userId, balance, unlockedEpisodes, errorsObserved, timersObserved, hookStatus, statusObserved, offLedger>>

\* Mutant of PersistBalance: the update is applied as a decrement relative to
\* the row's current values.
PersistBalance_Relative(row, c) ==
  IF c.flow = "addCoins" THEN Row(c.newCoins, c.newBonusCoins)
  ELSE SpendSplit(row, Min(c.amount, Total(row)))

\* Mutant of PersistBalance: the update writes the coins column only.
PersistBalance_CoinsOnly(row, c) == Row(c.newCoins, row.bonus_coins)

\* The database's answer to the update of user_balances: the row takes the two
\* values of the request, whatever it held.
PersistBalance(row, c) == Row(c.newCoins, c.newBonusCoins)

\* Mutant of setBalance: the local balance is left as it was.
setBalance_Skipped(local, c) == local

\* updateBalance after the update: if (balance) setBalance({...balance, coins:
\* newCoins, bonus_coins: newBonusCoins}), with the `balance` of the render the
\* call was made from.
setBalance(local, c) ==
  IF c.seen = Undefined THEN local
  ELSE Some(Row(c.newCoins, c.newBonusCoins))

\* updateBalance from the update on. When an attempt gets through, the row is
\* written, the local balance takes the new values and the call returns true; a
\* spend made by handleUnlockEpisode (coinsDeducted) goes on to unlockEpisode.
\* Once the retries are used up: an error toast and false.
UpdateBalanceSettle(s) ==
  /\ pc[s] = "updateBalance"
  /\ \E r \in Settlements(Resolved("ok")) :
       IF r.status = "resolved"
         THEN /\ dbBalance' = PersistBalance(dbBalance, ctx[s])
              /\ balance' = [balance EXCEPT ![s] = setBalance(@, ctx[s])]
              /\ IF ctx[s].flow = "handleUnlockEpisode"
                   THEN unlockEpisode(s, [ctx[s] EXCEPT !.coinsDeducted = TRUE])
                   ELSE Return(s, "true", ctx[s]) /\ UNCHANGED <<errors, timers>>
         ELSE /\ Toast(createErrorMessage("error", "updateBalance"))
              /\ Return(s, "false", [ctx[s] EXCEPT !.error = r.lastError])
              /\ UNCHANGED <<dbBalance, balance>>
  /\ UNCHANGED <<dbUnlocks, userId, unlockedEpisodes, errorsObserved, timersObserved, hookStatus, statusObserved, offLedger>>

\* Mutant of IsDuplicate: no error is taken for a uniqueness violation.
IsDuplicate_Never(err) == FALSE

\* errorMessage.includes('duplicate') || errorMessage.includes('unique')
IsDuplicate(err) ==
  "duplicate" \in getErrorMessage(err) \/ "unique" \in getErrorMessage(err)

\* The database's answer to the insert into user_episode_unlocks:
\* UNIQUE(user_id, movie_id) rejects a second row of the pair.
InsertUnlock(rows, movieId) ==
  IF rows[movieId] > 0
    THEN [rows |-> rows, outcome |-> Thrown("duplicate")]
    ELSE [rows |-> [rows EXCEPT ![movieId] = @ + 1], outcome |-> Resolved("ok")]

\* Mutant of UnlockFailed: the coins spent for the episode are credited back.
UnlockFailed_Refund(s, c) ==
  /\ Toast(createErrorMessage("error", "unlockEpisode"))
  /\ Return(s, "false", c)
  /\ dbBalance' = IF c.coinsDeducted THEN Get(c.seen) ELSE dbBalance
  /\ balance' = [balance EXCEPT ![s] = IF c.coinsDeducted THEN c.seen ELSE @]
  /\ UNCHANGED <<dbUnlocks, unlockedEpisodes>>

\* unlockEpisode's catch block for an error that is no uniqueness violation: an
\* error toast with a Retry, false; handleUnlockEpisode then does nothing more.
UnlockFailed(s, c) ==
  /\ Toast(createErrorMessage("error", "unlockEpisode"))
  /\ Return(s, "false", c)
  /\ UNCHANGED <<dbBalance, balance, dbUnlocks, unlockedEpisodes>>

\* unlockEpisode from the insert on: the row is inserted when an attempt gets
\* through and no row of the pair exists; a rejection with a uniqueness
\* violation counts as unlocked, any other rejection is reported with a Retry.
InsertUnlockSettle(s) ==
  /\ pc[s] = "insertUnlock"
  /\ \E r \in Settlements(InsertUnlock(dbUnlocks, ctx[s].movieId).outcome) :
       LET ins == InsertUnlock(dbUnlocks, ctx[s].movieId)
           added == [unlockedEpisodes EXCEPT ![s] = @ \cup {ctx[s].movieId}]
           c == [ctx[s] EXCEPT !.error = r.lastError]
       IN CASE r.status = "resolved" ->
                 /\ dbUnlocks' = ins.rows
                 /\ unlockedEpisodes' = added
                 /\ Toast(createErrorMessage("success", "none"))
                 /\ Return(s, "true", ctx[s])
                 /\ UNCHANGED <<dbBalance, balance>>
            [] r.status = "rejected" /\ IsDuplicate(r.lastError) ->
                 /\ unlockedEpisodes' = added
                 /\ Toast(createErrorMessage("info", "none"))
                 /\ Return(s, "true", c)
                 /\ UNCHANGED <<dbBalance, balance, dbUnlocks>>
            [] OTHER -> UnlockFailed(s, c)
  /\ UNCHANGED <<userId, errorsObserved, timersObserved, hookStatus, statusObserved, offLedger>>

\* MovieDetailPage.handleUnlockEpisode(episode), started by a click on an
\* episode the local list shows as locked. It returns at once without a user or
\* a cost, when the balance does not cover the cost, or when the user declines
\* the confirmation; otherwise it spends and, if that returned true, unlocks.
HandleUnlockEpisode(s, episode, confirmed) ==
  /\ pc[s] = "idle"
  /\ episode \notin unlockedEpisodes[s]
  /\ IF ~userId[s] \/ unlock_cost(episode) = 0
       THEN UNCHANGED <<pc, ctx, ret, errors, timers>>
       ELSE IF ~canAfford(s, unlock_cost(episode))
         THEN UNCHANGED <<pc, ctx, ret, errors, timers>>
         ELSE IF ~confirmed
           THEN UNCHANGED <<pc, ctx, ret, errors, timers>>
           ELSE spendCoins(s, unlock_cost(episode),
                           [Call("handleUnlockEpisode", unlock_cost(episode), episode, balance[s])
                              EXCEPT !.confirmed = confirmed])
  /\ UNCHANGED <<dbBalance, dbUnlocks, userId, balance, unlockedEpisodes, errorsObserved, timersObserved, hookStatus, statusObserved, offLedger>>

\* The expiry timer of a toast fires, or the user dismisses it.
RemoveError(i) ==
  /\ i \in 1..Len(errors)
  /\ errors' = removeError(errors, errors[i].id)
  /\ UNCHANGED <<timers, dbBalance, dbUnlocks, userId, balance, unlockedEpisodes, pc, ctx, ret, errorsObserved, timersObserved, hookStatus, statusObserved, offLedger>>

----------------------------------------------------------------------------
(* hooks/useWatchlist.ts and hooks/useWatchlistCategories.ts *)

\* The movies and the user's watchlist categories of this model.
Movies == {1, 2}
Categories == {"c1", "c2"}

\* A user_watchlist_categories row of the user: its id and its name. The rows
\* the model starts from are named after their ids.
Category(id, name) == [id |-> id, name |-> name]
CategoryIds(rows) == {r.id : r \in rows}
Named(ids) == {Category(id, IF id = "c1" THEN "a" ELSE "b") : id \in ids}

\* A user_watchlist row of the user, by movie id: "absent" when there is no
\* row, otherwise its category_id ("null" or a category).
NoRow == "absent"
NullCategory == "null"

WatchlistRows(rows) == {m \in Movies : rows[m] # NoRow}

\* fetchWatchlist up to the first await: without a user both pieces of local
\* state are emptied, otherwise the select is issued under withRetry.
fetchWatchlist(s, c) ==
  IF ~userId[s]
    THEN /\ watchlist' = [watchlist EXCEPT ![s] = {}]
         /\ watchlistIds' = [watchlistIds EXCEPT ![s] = {}]
         /\ UNCHANGED <<pc, ctx, hookStatus>>
    ELSE /\ FetchStarts(s, "useWatchlist")
         /\ Await(s, "fetchWatchlist", c)
         /\ UNCHANGED <<watchlist, watchlistIds>>

FetchWatchlist(s) ==
  /\ pc[s] = "idle"
  /\ fetchWatchlist(s, Call("fetchWatchlist", 0, 0, Undefined))
  /\ UNCHANGED <<dbWatchlist, dbCategories, categories, ret, errors, timers, offWatchlist>>

\* What the caller of fetchWatchlist does once the refresh is over:
\* addToWatchlistWithCategory adds a success toast, removeFromWatchlist an
\* info toast, moveToCategory a success toast, and all three return true; a
\* plain fetchWatchlist returns nothing.
AfterRefresh(flow) ==
  CASE flow = "addToWatchlist" ->
         [toasts |-> <<createErrorMessage("success", "none")>>, returns |-> TRUE]
    [] flow = "removeFromWatchlist" ->
         [toasts |-> <<createErrorMessage("info", "none")>>, returns |-> TRUE]
    [] flow = "moveToCategory" ->
         [toasts |-> <<createErrorMessage("success", "none")>>, returns |-> TRUE]
    [] OTHER -> [toasts |-> <<>>, returns |-> FALSE]

\* fetchWatchlist's catch block: setWatchlist([]), setWatchlistIds(new Set()).
RefreshFailed(ids) == {}

\* fetchWatchlist from the select on, then the rest of the function that
\* awaited it.
FetchWatchlistSettle(s) ==
  /\ pc[s] = "fetchWatchlist"
  /\ \E r \in Settlements(Resolved("ok")) :
       LET after == AfterRefresh(ctx[s].flow)
           failed == r.status # "resolved"
           c == IF failed THEN [ctx[s] EXCEPT !.error = r.lastError] ELSE ctx[s]
       IN /\ watchlist' = [watchlist EXCEPT ![s] =
                 IF failed THEN RefreshFailed(@)
                 ELSE {[id |-> m, category_id |-> dbWatchlist[m]] : m \in WatchlistRows(dbWatchlist)}]
          /\ watchlistIds' = [watchlistIds EXCEPT ![s] =
                 IF failed THEN RefreshFailed(@) ELSE WatchlistRows(dbWatchlist)]
          /\ Toasts((IF failed THEN <<createErrorMessage("error", "fetchWatchlist")>> ELSE <<>>)
                      \o after.toasts)
          /\ Return(s, IF after.returns THEN "true" ELSE ret[s], c)
          /\ FetchEnds(s, "useWatchlist", failed, r.lastError)
  /\ UNCHANGED <<dbWatchlist, dbCategories, categories, offWatchlist>>

\* addToWatchlistWithCategory(movieId, categoryId) up to the first await;
\* addToWatchlist(movieId) is the call with categoryId = null.
AddToWatchlistWithCategory(s, movieId, categoryId) ==
  /\ pc[s] = "idle"
  /\ LET c == [Call("addToWatchlist", 0, movieId, Undefined) EXCEPT !.categoryId = categoryId]
     IN IF ~userId[s]
          THEN Return(s, "false", c)
          ELSE Await(s, "insertWatchlist", c) /\ UNCHANGED ret
  /\ UNCHANGED <<watchVars, errors, timers, hookStatus, offWatchlist>>

\* The database's answer to the insert into user_watchlist:
\* UNIQUE(user_id, movie_id) rejects a second row of the pair, the foreign key
\* on category_id a category that does not exist.
InsertWatchlist(rows, cats, movieId, categoryId) ==
  IF rows[movieId] # NoRow
    THEN [rows |-> rows, outcome |-> Thrown("duplicate")]
    ELSE IF categoryId # NullCategory /\ categoryId \notin cats
      THEN [rows |-> rows, outcome |-> Thrown("foreign key")]
      ELSE [rows |-> [rows EXCEPT ![movieId] = categoryId], outcome |-> Resolved("ok")]

\* addToWatchlistWithCategory from the insert on: on success the id is added to
\* watchlistIds and fetchWatchlist is awaited; once the retries are used up an
\* error toast with a Retry and false.
InsertWatchlistSettle(s) ==
  /\ pc[s] = "insertWatchlist"
  /\ LET ins == InsertWatchlist(dbWatchlist, CategoryIds(dbCategories), ctx[s].movieId, ctx[s].categoryId)
     IN \E r \in Settlements(ins.outcome) :
          IF r.status = "resolved"
            THEN /\ dbWatchlist' = ins.rows
                 /\ watchlistIds' = [watchlistIds EXCEPT ![s] = @ \cup {ctx[s].movieId}]
                 /\ FetchStarts(s, "useWatchlist")
                 /\ Await(s, "fetchWatchlist", ctx[s])
                 /\ UNCHANGED <<watchlist, ret, errors, timers>>
            ELSE /\ SetError(s, "useWatchlist", Some(getErrorMessage(r.lastError)))
                 /\ Toasts(<<createErrorMessage("error", "addToWatchlist")>>)
                 /\ Return(s, "false", [ctx[s] EXCEPT !.error = r.lastError])
                 /\ UNCHANGED <<dbWatchlist, watchlist, watchlistIds>>
  /\ UNCHANGED <<dbCategories, categories, offWatchlist>>

\* removeFromWatchlist(movieId) up to the first await.
RemoveFromWatchlist(s, movieId) ==
  /\ pc[s] = "idle"
  /\ LET c == Call("removeFromWatchlist", 0, movieId, Undefined)
     IN IF ~userId[s]
          THEN Return(s, "false", c)
          ELSE Await(s, "deleteWatchlist", c) /\ UNCHANGED ret
  /\ UNCHANGED <<watchVars, errors, timers, hookStatus, offWatchlist>>

\* removeFromWatchlist from the delete on: the delete removes the row if there
\* is one; on success the id is taken out of watchlistIds and fetchWatchlist is
\* awaited.
DeleteWatchlistSettle(s) ==
  /\ pc[s] = "deleteWatchlist"
  /\ \E r \in Settlements(Resolved("ok")) :
       IF r.status = "resolved"
         THEN /\ dbWatchlist' = [dbWatchlist EXCEPT ![ctx[s].movieId] = NoRow]
              /\ watchlistIds' = [watchlistIds EXCEPT ![s] = @ \ {ctx[s].movieId}]
              /\ FetchStarts(s, "useWatchlist")
              /\ Await(s, "fetchWatchlist", ctx[s])
              /\ UNCHANGED <<watchlist, ret, errors, timers>>
         ELSE /\ SetError(s, "useWatchlist", Some(getErrorMessage(r.lastError)))
              /\ Toasts(<<createErrorMessage("error", "removeFromWatchlist")>>)
              /\ Return(s, "false", [ctx[s] EXCEPT !.error = r.lastError])
              /\ UNCHANGED <<dbWatchlist, watchlist, watchlistIds>>
  /\ UNCHANGED <<dbCategories, categories, offWatchlist>>

\* fetchCategories up to the first await.
fetchCategories(s, c) ==
  IF ~userId[s]
    THEN /\ categories' = [categories EXCEPT ![s] = {}]
         /\ UNCHANGED <<pc, ctx, hookStatus>>
    ELSE /\ FetchStarts(s, "useWatchlistCategories")
         /\ Await(s, "fetchCategories", c)
         /\ UNCHANGED categories

FetchCategories(s) ==
  /\ pc[s] = "idle"
  /\ fetchCategories(s, Call("fetchCategories", 0, 0, Undefined))
  /\ UNCHANGED <<dbWatchlist, dbCategories, watchlist, watchlistIds, ret, errors, timers, offWatchlist>>

\* fetchCategories from the select on, then the rest of the function that
\* awaited the refresh: deleteCategory shows an info toast, createCategory and
\* updateCategory a success toast, and each returns true.
FetchCategoriesSettle(s) ==
  /\ pc[s] = "fetchCategories"
  /\ \E r \in Settlements(Resolved("ok")) :
       LET failed == r.status # "resolved"
           deleting == ctx[s].flow = "deleteCategory"
           saving == ctx[s].flow \in {"createCategory", "updateCategory"}
           c == IF failed THEN [ctx[s] EXCEPT !.error = r.lastError] ELSE ctx[s]
       IN /\ categories' = [categories EXCEPT ![s] = IF failed THEN {} ELSE dbCategories]
          /\ Toasts((IF failed THEN <<createErrorMessage("error", "fetchCategories")>> ELSE <<>>)
                      \o (IF deleting THEN <<createErrorMessage("info", "none")>> ELSE <<>>)
                      \o (IF saving THEN <<createErrorMessage("success", "none")>> ELSE <<>>))
          /\ Return(s, IF deleting \/ saving THEN "true" ELSE ret[s], c)
          /\ FetchEnds(s, "useWatchlistCategories", failed, r.lastError)
  /\ UNCHANGED <<dbWatchlist, dbCategories, watchlist, watchlistIds, offWatchlist>>

\* deleteCategory(categoryId) up to the first await.
DeleteCategory(s, categoryId) ==
  /\ pc[s] = "idle"
  /\ LET c == [Call("deleteCategory", 0, 0, Undefined) EXCEPT !.categoryId = categoryId]
     IN IF ~userId[s]
          THEN Return(s, "false", c)
          ELSE Await(s, "deleteCategory", c) /\ UNCHANGED ret
  /\ UNCHANGED <<watchVars, errors, timers, hookStatus, offWatchlist>>

\* Mutant of OnDeleteCategory: the foreign key cascades, ON DELETE CASCADE.
OnDeleteCategory_Cascade(rows, categoryId) ==
  [m \in Movies |-> IF rows[m] = categoryId THEN NoRow ELSE rows[m]]

\* user_watchlist.category_id REFERENCES user_watchlist_categories(id)
\* ON DELETE SET NULL
OnDeleteCategory(rows, categoryId) ==
  [m \in Movies |-> IF rows[m] = categoryId THEN NullCategory ELSE rows[m]]

\* deleteCategory from the delete on: the category row is deleted, the
\* referencing watchlist rows follow the foreign key's rule, and fetchCategories
\* is awaited.
DeleteCategorySettle(s) ==
  /\ pc[s] = "deleteCategory"
  /\ \E r \in Settlements(Resolved("ok")) :
       IF r.status = "resolved"
         THEN /\ dbCategories' = {row \in dbCategories : row.id # ctx[s].categoryId}
              /\ dbWatchlist' = IF ctx[s].categoryId \in CategoryIds(dbCategories)
                                  THEN OnDeleteCategory(dbWatchlist, ctx[s].categoryId)
                                  ELSE dbWatchlist
              /\ fetchCategories(s, ctx[s])
              /\ UNCHANGED <<ret, errors, timers>>
         ELSE /\ Toasts(<<createErrorMessage("error", "deleteCategory")>>)
              /\ Return(s, "false", [ctx[s] EXCEPT !.error = r.lastError])
              /\ UNCHANGED <<dbCategories, dbWatchlist, categories, hookStatus>>
  /\ UNCHANGED <<watchlist, watchlistIds, offWatchlist>>

\* isInWatchlist(movieId)
isInWatchlist(s, movieId) == movieId \in watchlistIds[s]

WatchlistIdle ==
  /\ dbWatchlist = [m \in Movies |-> NoRow]
  /\ dbCategories = {}
  /\ watchlist = [s \in Sessions |-> {}]
  /\ watchlistIds = [s \in Sessions |-> {}]
  /\ categories = [s \in Sessions |-> {}]

----------------------------------------------------------------------------
(* hooks/useWatchHistory.ts *)

\* Playback positions and durations are fractional seconds; the model counts
\* them in tenths of a second. Math.floor of a number of seconds given in tenths:
MathFloor(tenths) == tenths \div 10

\* The progress values and the duration the player reports, in tenths.
ProgressValues == {5, 19}
DurationValues == {27}

\* A user_watch_history row of the user.
HistoryRow(progressSeconds, totalDurationSeconds) ==
  [progress_seconds |-> MathFloor(progressSeconds),
   total_duration_seconds |-> MathFloor(totalDurationSeconds)]

\* Mutant of Upsert: a plain insert on a table without the unique constraint.
Upsert_Insert(rows, row) == Append(rows, row)

\* upsert(..., { onConflict: 'user_id,movie_id' }) on the rows of one
\* (user_id, movie_id) pair: the row is inserted when there is none, otherwise
\* the existing row takes the new values.
Upsert(rows, row) == IF rows = <<>> THEN <<row>> ELSE [rows EXCEPT ![1] = row]

\* What one attempt of a write can do: be applied and answered, be applied with
\* the answer lost on the way back, or never reach the database.
WriteAttempts ==
  {[applied |-> TRUE, outcome |-> Resolved("ok")],
   [applied |-> TRUE, outcome |-> Thrown("network")],
   [applied |-> FALSE, outcome |-> Thrown("network")]}

\* isNetworkError(err) of the errors of this model.
isNetworkError(err) == err = "network"

\* fetchWatchHistory up to the first await.
fetchWatchHistory(s, c) ==
  IF ~userId[s]
    THEN /\ continueWatching' = [continueWatching EXCEPT ![s] = [m \in Movies |-> <<>>]]
         /\ UNCHANGED <<pc, ctx, hookStatus>>
    ELSE /\ FetchStarts(s, "useWatchHistory")
         /\ Await(s, "fetchWatchHistory", c)
         /\ UNCHANGED continueWatching

FetchWatchHistory(s) ==
  /\ pc[s] = "idle"
  /\ fetchWatchHistory(s, Call("fetchWatchHistory", 0, 0, Undefined))
  /\ UNCHANGED <<dbHistory, ret, errors, timers, offHistory>>

\* fetchWatchHistory from the select on; the functions of this hook return
\* nothing, so nothing of the call is kept.
FetchWatchHistorySettle(s) ==
  /\ pc[s] = "fetchWatchHistory"
  /\ \E r \in Settlements(Resolved("ok")) :
       /\ IF r.status = "resolved"
            THEN /\ continueWatching' = [continueWatching EXCEPT ![s] = dbHistory]
                 /\ UNCHANGED <<errors, timers>>
            ELSE /\ continueWatching' = [continueWatching EXCEPT ![s] = [m \in Movies |-> <<>>]]
                 /\ Toasts(<<createErrorMessage("error", "fetchWatchHistory")>>)
       /\ FetchEnds(s, "useWatchHistory", r.status # "resolved", r.lastError)
  /\ Return(s, ret[s], NoCall)
  /\ UNCHANGED <<dbHistory, offHistory>>

\* addToWatchHistory(movieId, progressSeconds, totalDurationSeconds) up to the
\* first await.
AddToWatchHistory(s, movieId, progressSeconds, totalDurationSeconds) ==
  /\ pc[s] = "idle"
  /\ userId[s]
  /\ Await(s, "upsertHistory",
           [Call("addToWatchHistory", 0, movieId, Undefined) EXCEPT
              !.progressSeconds = progressSeconds,
              !.totalDurationSeconds = totalDurationSeconds])
  /\ UNCHANGED <<dbHistory, continueWatching, ret, errors, timers, hookStatus, offHistory>>

\* One attempt of the upsert under withRetry. After the attempt that is
\* answered fetchWatchHistory is awaited; once the retries are used up the
\* catch block shows a warning if the error is a network error.
UpsertHistoryAttempt(s) ==
  /\ pc[s] = "upsertHistory"
  /\ \E a \in WriteAttempts :
       LET c == ctx[s]
           r == WithRetryStep(c.retry, defaultRetryOptions, a.outcome)
       IN /\ dbHistory' =
               IF a.applied
                 THEN [dbHistory EXCEPT ![c.movieId] =
                         Upsert(@, HistoryRow(c.progressSeconds, c.totalDurationSeconds))]
                 ELSE dbHistory
          /\ CASE r.status = "running" ->
                    /\ ctx' = [ctx EXCEPT ![s].retry = r]
                    /\ UNCHANGED <<pc, ret, errors, timers, hookStatus>>
               [] r.status = "resolved" ->
                    /\ FetchStarts(s, "useWatchHistory")
                    /\ Await(s, "fetchWatchHistory", [c EXCEPT !.retry = RetryStart])
                    /\ UNCHANGED <<ret, errors, timers>>
               [] OTHER ->
                    /\ IF isNetworkError(r.lastError)
                         THEN Toasts(<<createErrorMessage("warning", "none")>>)
                         ELSE UNCHANGED <<errors, timers>>
                    /\ Return(s, ret[s], NoCall)
                    /\ UNCHANGED hookStatus
  /\ UNCHANGED <<continueWatching, offHistory>>

\* removeFromWatchHistory(movieId) up to the first await.
RemoveFromWatchHistory(s, movieId) ==
  /\ pc[s] = "idle"
  /\ userId[s]
  /\ Await(s, "deleteHistory", Call("removeFromWatchHistory", 0, movieId, Undefined))
  /\ UNCHANGED <<dbHistory, continueWatching, ret, errors, timers, hookStatus, offHistory>>

\* One attempt of the delete under withRetry.
DeleteHistoryAttempt(s) ==
  /\ pc[s] = "deleteHistory"
  /\ \E a \in WriteAttempts :
       LET c == ctx[s]
           r == WithRetryStep(c.retry, defaultRetryOptions, a.outcome)
       IN /\ dbHistory' = IF a.applied THEN [dbHistory EXCEPT ![c.movieId] = <<>>]
                          ELSE dbHistory
          /\ CASE r.status = "running" ->
                    /\ ctx' = [ctx EXCEPT ![s].retry = r]
                    /\ UNCHANGED <<pc, ret, errors, timers, hookStatus>>
               [] r.status = "resolved" ->
                    /\ FetchStarts(s, "useWatchHistory")
                    /\ Await(s, "fetchWatchHistory", [c EXCEPT !.retry = RetryStart])
                    /\ UNCHANGED <<ret, errors, timers>>
               [] OTHER ->
                    /\ Toasts(<<createErrorMessage("error", "removeFromWatchHistory")>>)
                    /\ Return(s, ret[s], NoCall)
                    /\ UNCHANGED hookStatus
  /\ UNCHANGED <<continueWatching, offHistory>>

HistoryIdle ==
  /\ dbHistory = [m \in Movies |-> <<>>]
  /\ continueWatching = [s \in Sessions |-> [m \in Movies |-> <<>>]]

----------------------------------------------------------------------------
(* hooks/useMovieComments.ts and the row-level security of movie_comments *)

Users == {"u1", "u2"}
Anon == "anon"
CommentIds == 1..MaxComments
CommentTexts == {"a", "b"}

\* A movie_comments row of the movie shown, by comment id: not yet created,
\* live, or deleted.
UnusedComment == [status |-> "unused", user_id |-> "none", comment_text |-> "none"]
DeletedComment == [status |-> "deleted", user_id |-> "none", comment_text |-> "none"]
Comment(userIdArg, commentText) ==
  [status |-> "live", user_id |-> userIdArg, comment_text |-> commentText]

LiveComments(rows) == {id \in CommentIds : rows[id].status = "live"}

\* Mutant of PolicyAllows: the DELETE policy is USING (true).
PolicyAllows_DeleteAny(command, uid, user_id) ==
  CASE command = "SELECT" -> TRUE
    [] command = "DELETE" -> uid # Anon
    [] OTHER -> uid # Anon /\ uid = user_id

\* The policies of movie_comments: SELECT for everybody; INSERT, UPDATE and
\* DELETE for authenticated users on rows with auth.uid() = user_id.
PolicyAllows(command, uid, user_id) ==
  CASE command = "SELECT" -> TRUE
    [] OTHER -> uid # Anon /\ uid = user_id

\* fetchComments up to the first await (the hook is given a movie id).
fetchComments(s, c) ==
  /\ FetchStarts(s, "useMovieComments")
  /\ Await(s, "fetchComments", c)

FetchComments(s) ==
  /\ pc[s] = "idle"
  /\ fetchComments(s, Call("fetchComments", 0, 0, Undefined))
  /\ UNCHANGED <<dbComments, comments, ret, errors, timers, offComments>>

\* fetchComments from the select on, then the rest of addComment (a success
\* toast, true) or deleteComment (an info toast, true) when they awaited it.
FetchCommentsSettle(s) ==
  /\ pc[s] = "fetchComments"
  /\ \E r \in Settlements(Resolved("ok")) :
       LET failed == r.status # "resolved"
           flow == ctx[s].flow
           c == IF failed THEN [ctx[s] EXCEPT !.error = r.lastError] ELSE ctx[s]
       IN /\ comments' = [comments EXCEPT ![s] =
                 IF failed THEN {}
                 ELSE {id \in LiveComments(dbComments) :
                         PolicyAllows("SELECT", authUid[s], dbComments[id].user_id)}]
          /\ Toasts((IF failed THEN <<createErrorMessage("error", "fetchComments")>> ELSE <<>>)
                      \o (CASE flow = "addComment" -> <<createErrorMessage("success", "none")>>
                            [] flow = "deleteComment" -> <<createErrorMessage("info", "none")>>
                            [] OTHER -> <<>>))
          /\ Return(s, IF flow \in {"addComment", "deleteComment"} THEN "true" ELSE ret[s], c)
          /\ FetchEnds(s, "useMovieComments", failed, r.lastError)
  /\ UNCHANGED <<dbComments, offComments>>

\* addComment(userId, commentText) with a non-blank text, up to the first await.
AddComment(s, userIdArg, commentText) ==
  /\ pc[s] = "idle"
  /\ Await(s, "insertComment",
           [Call("addComment", 0, 0, Undefined) EXCEPT
              !.userIdArg = userIdArg, !.commentText = commentText])
  /\ SetError(s, "useMovieComments", Undefined)
  /\ UNCHANGED <<dbComments, comments, ret, errors, timers, offComments>>

\* The database's answer to the insert: the policy's WITH CHECK rejects a row
\* whose user_id is not the caller's; otherwise the row gets a fresh id.
InsertComment(rows, uid, userIdArg, commentText) ==
  LET unused == {id \in CommentIds : rows[id].status = "unused"} IN
  IF ~PolicyAllows("INSERT", uid, userIdArg)
    THEN [rows |-> rows, outcome |-> Thrown("row-level security")]
    ELSE LET id == CHOOSE i \in unused : \A j \in unused : i <= j
         IN [rows |-> [rows EXCEPT ![id] = Comment(userIdArg, commentText)],
             outcome |-> Resolved("ok")]

\* addComment from the insert on.
InsertCommentSettle(s) ==
  /\ pc[s] = "insertComment"
  /\ \E id \in CommentIds : dbComments[id].status = "unused"
  /\ LET ins == InsertComment(dbComments, authUid[s], ctx[s].userIdArg, ctx[s].commentText)
     IN \E r \in Settlements(ins.outcome) :
          IF r.status = "resolved"
            THEN /\ dbComments' = ins.rows
                 /\ fetchComments(s, ctx[s])
                 /\ UNCHANGED <<ret, errors, timers>>
            ELSE /\ SetError(s, "useMovieComments", Some(getErrorMessage(r.lastError)))
                 /\ Toasts(<<createErrorMessage("error", "addComment")>>)
                 /\ Return(s, "false", [ctx[s] EXCEPT !.error = r.lastError])
                 /\ UNCHANGED dbComments
  /\ UNCHANGED <<comments, offComments>>

\* deleteComment(commentId, userId) up to the first await.
DeleteComment(s, commentId, userIdArg) ==
  /\ pc[s] = "idle"
  /\ Await(s, "deleteComment",
           [Call("deleteComment", 0, 0, Undefined) EXCEPT
              !.commentId = commentId, !.userIdArg = userIdArg])
  /\ UNCHANGED <<dbComments, comments, ret, errors, timers, hookStatus, offComments>>

\* The database's answer to delete().eq('id', commentId).eq('user_id', userId):
\* the rows matching both filters that the DELETE policy lets the caller see
\* are deleted; deleting no row is no error.
DeleteCommentRows(rows, uid, commentId, userIdArg) ==
  [id \in CommentIds |->
     IF /\ rows[id].status = "live"
        /\ id = commentId /\ rows[id].user_id = userIdArg
        /\ PolicyAllows("DELETE", uid, rows[id].user_id)
       THEN DeletedComment ELSE rows[id]]

\* deleteComment from the delete on.
DeleteCommentSettle(s) ==
  /\ pc[s] = "deleteComment"
  /\ \E r \in Settlements(Resolved("ok")) :
       IF r.status = "resolved"
         THEN /\ dbComments' = DeleteCommentRows(dbComments, authUid[s],
                                                 ctx[s].commentId, ctx[s].userIdArg)
              /\ fetchComments(s, ctx[s])
              /\ UNCHANGED <<ret, errors, timers>>
         ELSE /\ SetError(s, "useMovieComments", Some(getErrorMessage(r.lastError)))
              /\ Toasts(<<createErrorMessage("error", "deleteComment")>>)
              /\ Return(s, "false", [ctx[s] EXCEPT !.error = r.lastError])
              /\ UNCHANGED dbComments
  /\ UNCHANGED <<comments, offComments>>

\* A client sends an update of a comment's text under its own session; the
\* UPDATE policy decides which rows it reaches. (No hook does this.)
UpdateCommentText(s, commentId, commentText) ==
  /\ pc[s] = "idle"
  /\ dbComments' =
       [id \in CommentIds |->
          IF /\ dbComments[id].status = "live" /\ id = commentId
             /\ PolicyAllows("UPDATE", authUid[s], dbComments[id].user_id)
            THEN [dbComments[id] EXCEPT !.comment_text = commentText]
            ELSE dbComments[id]]
  /\ Return(s, ret[s], [Call("updateComment", 0, 0, Undefined) EXCEPT
                         !.commentId = commentId, !.commentText = commentText])
  /\ UNCHANGED <<comments, errors, timers, hookStatus, offComments>>

CommentsIdle ==
  /\ dbComments = [id \in CommentIds |-> UnusedComment]
  /\ comments = [s \in Sessions |-> {}]
  /\ authUid = [s \in Sessions |-> Anon]

----------------------------------------------------------------------------
(* Spec: one session running the hooks' operations, toasts observed *)

\* spendCoins is called with amounts from -1 up to more than either kind of
\* coins can hold.
SpendAmounts == (0 - 1)..(MaxCoins + 1)
\* addCoins is called with 0 or 1 coins and 0 or 1 bonus coins.
AddAmounts == {0, 1}

RetryIdle ==
  /\ rOptions = [maxRetries |-> Undefined, delay |-> Undefined, backoff |-> Undefined]
  /\ rState = RetryStart
  /\ rLog = <<>>

\* The hooks are mounted: nothing fetched yet, no call running. The user's
\* user_balances row exists (it is created on signup) with any balance.
Mounted(signedIn) ==
  /\ dbBalance \in {Row(c, b) : c \in 0..MaxCoins, b \in 0..MaxCoins}
  /\ dbUnlocks = [m \in Episodes |-> 0]
  /\ userId \in [Sessions -> BOOLEAN]
  /\ \A s \in Sessions : userId[s] => s \in signedIn
  /\ balance = [s \in Sessions |-> Undefined]
  /\ unlockedEpisodes = [s \in Sessions |-> {}]
  /\ pc = [s \in Sessions |-> "idle"]
  /\ ctx = [s \in Sessions |-> NoCall]
  /\ ret = [s \in Sessions |-> "none"]
  /\ errors = <<>>
  /\ timers = {}
  /\ player = Unmounted
  /\ app = AppIdle
  /\ hookStatus = [s \in Sessions |-> [h \in Hooks |-> HookIdle]]
  /\ WatchlistIdle
  /\ HistoryIdle
  /\ CommentsIdle

Init == Mounted({"s1"}) /\ errorsObserved = TRUE /\ timersObserved = FALSE /\ statusObserved = FALSE /\ RetryIdle

Next ==
  \/ FetchBalance("s1")
  \/ FetchBalanceSettle("s1")
  \/ \E c \in AddAmounts, b \in AddAmounts : AddCoins("s1", c, b)
  \/ \E a \in SpendAmounts : SpendCoins("s1", a)
  \/ \E cost \in SpendAmounts : CanAfford("s1", cost)
  \/ UpdateBalanceSettle("s1")
  \/ FetchUnlockedEpisodes("s1")
  \/ FetchUnlockedEpisodesSettle("s1")
  \/ \E m \in Episodes, confirmed \in BOOLEAN : HandleUnlockEpisode("s1", m, confirmed)
  \/ \E m \in Episodes : UnlockEpisode("s1", m)
  \/ InsertUnlockSettle("s1")
  \/ \E i \in 1..MaxToasts : RemoveError(i)

Spec == Init /\ [][Next]_vars

----------------------------------------------------------------------------
(* SpecShared: the coin ledger used from two sessions *)

SharedInit == Mounted(Sessions) /\ errorsObserved = FALSE /\ timersObserved = FALSE /\ statusObserved = FALSE /\ RetryIdle

SharedNext ==
  \/ \E s \in Sessions : FetchBalance(s)
  \/ \E s \in Sessions : FetchBalanceSettle(s)
  \/ \E s \in Sessions, c \in AddAmounts, b \in AddAmounts : AddCoins(s, c, b)
  \/ \E s \in Sessions, a \in SpendAmounts : SpendCoins(s, a)
  \/ \E s \in Sessions : UpdateBalanceSettle(s)

SpecShared == SharedInit /\ [][SharedNext]_vars

----------------------------------------------------------------------------
(* Properties of the coin ledger and the unlock gate *)

\* The toasts of a queue without their ids.
Messages(queue) ==
  [i \in 1..Len(queue) |->
     [type |-> queue[i].type, retry |-> queue[i].retry, duration |-> queue[i].duration]]

WarningToast == [type |-> "warning", retry |-> "none", duration |-> 5000]
InfoToast == [type |-> "info", retry |-> "none", duration |-> 5000]
RetryToast(action) == [type |-> "error", retry |-> action, duration |-> 5000]

\* The call of session s has returned r.
Returned(s, flow, r) == pc[s] = "idle" /\ ctx[s].flow = flow /\ ret[s] = r

\* C1: a spendCoins(amount) with 0 <= amount <= coins + bonus_coins whose
\* persist succeeds returns true and sets the persisted and the local balance
\* to bonus_coins - min(amount, bonus_coins) and
\* coins - (amount - min(amount, bonus_coins)): the total drops by exactly
\* amount, and regular coins are touched only once the bonus coins are used up.
\* From {coins 100, bonus 50}, spending 120 gives {30, 0} and spending 30
\* gives {100, 20}.
C1_SpendSplit ==
  [][/\ SpendSplit(Row(100, 50), 120) = Row(30, 0)
     /\ SpendSplit(Row(100, 50), 30) = Row(100, 20)
     /\ \A s \in Sessions :
          (/\ pc[s] = "updateBalance" /\ ctx[s].flow = "spendCoins"
           /\ ctx[s].amount >= 0
           /\ pc'[s] = "idle" /\ ctx'[s].error = NoError)
          => LET b == Get(ctx[s].seen)
                 a == ctx[s].amount
                 fromBonus == Min(a, b.bonus_coins)
                 new == Row(b.coins - (a - fromBonus), b.bonus_coins - fromBonus)
             IN /\ a <= Total(b)
                /\ ret'[s] = "true"
                /\ dbBalance' = new
                /\ balance'[s] = Some(new)
                /\ Total(new) = Total(b) - a
                /\ (new.coins < b.coins => new.bonus_coins = 0)]_vars

\* C1 witness: from {coins 2, bonus 1} a spend of 2 returned true and left
\* {coins 1, bonus 0}, locally and in the database.
C1_Witness ==
  /\ Returned("s1", "spendCoins", "true")
  /\ ctx["s1"].seen = Some(Row(2, 1)) /\ ctx["s1"].amount = 2
  /\ balance["s1"] = Some(Row(1, 0)) /\ dbBalance = Row(1, 0)

\* C2: spendCoins(amount) with amount above coins + bonus_coins returns false,
\* issues no update, leaves the persisted and the local balance as they were
\* and adds exactly one toast, of type 'warning'.
C2_InsufficientFunds ==
  [][\A s \in Sessions, a \in SpendAmounts :
       (/\ SpendCoins(s, a)
        /\ balance[s] # Undefined
        /\ a > Total(Get(balance[s])))
       => /\ ret'[s] = "false"
          /\ pc'[s] = "idle"
          /\ UNCHANGED <<dbBalance, balance>>
          /\ Messages(errors') = Append(Messages(errors), WarningToast)]_vars

\* C2 witness: a spend of one more than the loaded total returned false with
\* the warning as the only toast, the balance still as loaded.
C2_Witness ==
  /\ Returned("s1", "spendCoins", "false")
  /\ balance["s1"] # Undefined /\ ctx["s1"].seen = balance["s1"]
  /\ Get(balance["s1"]) = dbBalance
  /\ ctx["s1"].amount = Total(dbBalance) + 1
  /\ Messages(errors) = <<WarningToast>>

\* C3: coins >= 0 and bonus_coins >= 0, in the persisted row and in every
\* loaded local balance, in every state two sessions can reach by spending any
\* amount and adding non-negative amounts, in any interleaving.
C3_NonNegative ==
  /\ dbBalance.coins >= 0 /\ dbBalance.bonus_coins >= 0
  /\ \A s \in Sessions :
       balance[s] # Undefined =>
         (Get(balance[s]).coins >= 0 /\ Get(balance[s]).bonus_coins >= 0)

\* C3 witness: one session has spent everything it saw, the other has added
\* coins to the balance it saw before; both returned true, and the local
\* balances differ.
C3_Witness ==
  /\ Returned("s1", "spendCoins", "true") /\ ctx["s1"].amount > 0
  /\ balance["s1"] = Some(Row(0, 0))
  /\ Returned("s2", "addCoins", "true") /\ ctx["s2"].seen = ctx["s1"].seen
  /\ balance["s2"] # balance["s1"] /\ dbBalance = Get(balance["s2"])

\* Two sessions have each returned true from a spendCoins made on the same
\* in-memory balance, and the two amounts together exceed that balance.
Overspent(s, t) ==
  /\ s # t
  /\ Returned(s, "spendCoins", "true") /\ Returned(t, "spendCoins", "true")
  /\ ctx[s].seen # Undefined /\ ctx[s].seen = ctx[t].seen
  /\ ctx[s].amount + ctx[t].amount > Total(Get(ctx[s].seen))

\* C4: no guard spans the check and the write: when two sessions holding the
\* same in-memory balance both spend, each amount coverable alone but not both
\* together, both return true; the persisted balance is the absolute value one
\* of them wrote, and less has been deducted than was spent.
C4_LastWriteWins ==
  \A s, t \in Sessions :
    Overspent(s, t) =>
      LET seen == Get(ctx[s].seen) IN
      /\ ctx[s].amount <= Total(seen) /\ ctx[t].amount <= Total(seen)
      /\ dbBalance \in {Row(ctx[s].newCoins, ctx[s].newBonusCoins),
                        Row(ctx[t].newCoins, ctx[t].newBonusCoins)}
      /\ Total(seen) - Total(dbBalance) \in {ctx[s].amount, ctx[t].amount}
      /\ Total(seen) - Total(dbBalance) < ctx[s].amount + ctx[t].amount

\* C4 witness: both sessions saw {coins 2, bonus 2}; one spent 3, the other 2,
\* both returned true; the row holds the second session's write and a total of
\* 2, although 5 were spent from 4.
C4_Witness ==
  /\ Overspent("s1", "s2")
  /\ ctx["s1"].seen = Some(Row(2, 2))
  /\ ctx["s1"].amount = 3 /\ ctx["s2"].amount = 2
  /\ dbBalance = Row(2, 0)

\* C5: spending and unlocking are not atomic. When handleUnlockEpisode has
\* deducted the coins and unlockEpisode then returns false, the flow ends
\* there: the persisted and the local balance stay charged, the episode is not
\* in the unlocked set, and nothing credits the coins back.
C5_ChargedWithoutAccess ==
  \A s \in Sessions :
    (Returned(s, "handleUnlockEpisode", "false") /\ ctx[s].coinsDeducted)
    => LET charged == Row(ctx[s].newCoins, ctx[s].newBonusCoins) IN
       /\ ctx[s].amount > 0
       /\ Total(charged) = Total(Get(ctx[s].seen)) - ctx[s].amount
       /\ dbBalance = charged
       /\ balance[s] = Some(charged)
       /\ ctx[s].movieId \notin unlockedEpisodes[s]

\* C5 witness: the coins for episode 1 are deducted, unlockEpisode returned
\* false, and no row for the episode exists.
C5_Witness ==
  /\ Returned("s1", "handleUnlockEpisode", "false") /\ ctx["s1"].coinsDeducted
  /\ ctx["s1"].movieId = 1 /\ dbUnlocks[1] = 0
  /\ Total(dbBalance) = Total(Get(ctx["s1"].seen)) - unlock_cost(1)

\* C6: unlocking the same episode twice is idempotent: at most one row of the
\* pair exists, and an attempt for an episode whose row exists already reports
\* success without deducting further coins.
C6_Idempotent ==
  /\ \A m \in Episodes : dbUnlocks[m] <= 1
  /\ \A s \in Sessions :
       (Returned(s, "handleUnlockEpisode", "true") /\ ctx[s].error = "duplicate")
       => (dbBalance = Get(ctx[s].seen) /\ balance[s] = ctx[s].seen)

\* C7: when the insert of unlockEpisode ends with an error whose message
\* contains 'duplicate' or 'unique', the call returns true, adds the movie id
\* to the local set and shows an 'info' toast; with any other error it returns
\* false, leaves the set unchanged and shows an 'error' toast with a retry.
C7_UnlockCatch ==
  [][\A s \in Sessions :
       (pc[s] = "insertUnlock" /\ pc'[s] = "idle" /\ ctx'[s].error # NoError)
       => IF {"duplicate", "unique"} \cap getErrorMessage(ctx'[s].error) # {}
            THEN /\ ret'[s] = "true"
                 /\ unlockedEpisodes'[s] = unlockedEpisodes[s] \cup {ctx[s].movieId}
                 /\ Messages(errors') = Append(Messages(errors), InfoToast)
            ELSE /\ ret'[s] = "false"
                 /\ unlockedEpisodes'[s] = unlockedEpisodes[s]
                 /\ Messages(errors') = Append(Messages(errors), RetryToast("unlockEpisode"))]_vars

\* C7 witness: an insert for an episode missing from the local set was rejected
\* as a duplicate; the call returned true, the episode is in the set now, and
\* the info toast is shown.
C7_Witness ==
  /\ Returned("s1", "unlockEpisode", "true") /\ ctx["s1"].error = "duplicate"
  /\ ctx["s1"].movieId \in unlockedEpisodes["s1"]
  /\ dbUnlocks[ctx["s1"].movieId] = 1
  /\ Messages(errors) = <<InfoToast>>

\* C8: unlockEpisode with a movie id that is in the local unlocked set returns
\* true without an insert and without changing the set; without a signed-in
\* user it returns false without an insert and shows a 'warning' toast.
C8_UnlockShortCircuit ==
  [][\A s \in Sessions, m \in Episodes :
       UnlockEpisode(s, m) =>
         /\ (userId[s] /\ m \in unlockedEpisodes[s])
              => /\ ret'[s] = "true"
                 /\ pc'[s] = "idle"
                 /\ UNCHANGED <<dbUnlocks, unlockedEpisodes>>
         /\ ~userId[s]
              => /\ ret'[s] = "false"
                 /\ pc'[s] = "idle"
                 /\ UNCHANGED <<dbUnlocks, unlockedEpisodes>>
                 /\ Messages(errors') = Append(Messages(errors), WarningToast)]_vars

\* C8 witness: unlockEpisode for an episode already in the local set returned
\* true with no insert made by this call.
C8_Witness ==
  /\ Returned("s1", "unlockEpisode", "true") /\ ctx["s1"].error = NoError
  /\ ctx["s1"].movieId \in unlockedEpisodes["s1"]
  /\ Messages(errors) = <<InfoToast>>

----------------------------------------------------------------------------
(* SpecRetry: one withRetry call around an operation that may throw *)

OtherDelay == 500   \* a caller-chosen delay other than the default

ErrorKinds == {"network", "validation", "duplicate"}
Values == {"v1", "v2"}
Outcomes == {Resolved(v) : v \in Values} \cup {Thrown(e) : e \in ErrorKinds}

OptionSets ==
  [maxRetries : {Some(n) : n \in 0..MaxCap} \cup {Undefined},
   delay      : {Some(DefaultDelay), Some(OtherDelay), Undefined},
   backoff    : {Some(TRUE), Some(FALSE), Undefined}]

LedgerIdle ==
  /\ dbBalance = [coins |-> 0, bonus_coins |-> 0]
  /\ dbUnlocks = [m \in Episodes |-> 0]
  /\ userId = [s \in Sessions |-> FALSE]
  /\ balance = [s \in Sessions |-> Undefined]
  /\ unlockedEpisodes = [s \in Sessions |-> {}]
  /\ pc = [s \in Sessions |-> "idle"]
  /\ ctx = [s \in Sessions |-> NoCall]
  /\ ret = [s \in Sessions |-> "none"]
  /\ errors = <<>>
  /\ timers = {}
  /\ player = Unmounted
  /\ app = AppIdle
  /\ hookStatus = [s \in Sessions |-> [h \in Hooks |-> HookIdle]]
  /\ errorsObserved = FALSE /\ timersObserved = FALSE /\ statusObserved = FALSE
  /\ WatchlistIdle
  /\ HistoryIdle
  /\ CommentsIdle

RetryInit ==
  /\ rOptions \in OptionSets
  /\ rState = RetryStart
  /\ rLog = <<>>
  /\ LedgerIdle

\* The loop body runs once: the operation is invoked and its outcome handled.
RetryAttempt ==
  /\ rState.status = "running"
  /\ \E outcome \in Outcomes :
       /\ rLog' = Append(rLog, outcome)
       /\ rState' = WithRetryStep(rState, ResolveOptions(rOptions), outcome)
  /\ UNCHANGED <<rOptions, ledgerVars, watchVars, historyVars, commentVars, player, app>>

RetryNext == RetryAttempt

SpecRetry == RetryInit /\ [][RetryNext]_vars

\* The operation terminates and the backoff timer fires, so a running loop
\* always gets its next iteration.
SpecRetryFair == RetryInit /\ [][RetryNext]_vars /\ WF_vars(RetryAttempt)

Cap == ResolveOptions(rOptions).maxRetries
AllThrown(log) == \A i \in 1..Len(log) : ~log[i].ok

\* C9: with cap N = maxRetries >= 0, an operation that throws on its first
\* k <= N attempts and then succeeds makes withRetry resolve with that success
\* value; one that throws on all N+1 attempts makes it reject with the error
\* of the last attempt, not of the first.
C9_RetryOutcome ==
  /\ \A k \in 0..Cap :
       (Len(rLog) = k + 1 /\ AllThrown(SubSeq(rLog, 1, k)) /\ rLog[k + 1].ok)
         => (rState.status = "resolved" /\ rState.value = rLog[k + 1].value)
  /\ (Len(rLog) = Cap + 1 /\ AllThrown(rLog))
       => (rState.status = "rejected" /\ rState.lastError = rLog[Cap + 1].error)
  /\ rState.status = "resolved" => (rLog # <<>> /\ rLog[Len(rLog)].ok)
  /\ rState.status = "rejected" => (Len(rLog) = Cap + 1 /\ AllThrown(rLog))

\* C9 witness: under the default cap all four attempts threw, the first and the
\* last with different errors, and withRetry rejected.
C9_Witness ==
  /\ rOptions.maxRetries = Undefined
  /\ rState.status = "rejected"
  /\ Len(rLog) = DefaultMaxRetries + 1
  /\ rLog[1].error # rLog[Len(rLog)].error

\* State part of C10: the operation is invoked at most maxRetries + 1 times and
\* at least once before withRetry settles; while the loop runs every attempt so
\* far threw and fewer than maxRetries + 1 were made; it gives up only after
\* maxRetries + 1 throws, whatever their kinds.
C10_Bounded ==
  /\ Len(rLog) <= Cap + 1
  /\ (rOptions.maxRetries = Undefined => Len(rLog) <= 4)
  /\ (rState.status # "running" => Len(rLog) >= 1)
  /\ (rState.status = "running" =>
        (AllThrown(rLog) /\ Len(rLog) = rState.attempt /\ Len(rLog) <= Cap))
  /\ (rState.status = "rejected" => Len(rLog) = Cap + 1)
  /\ \A i \in 1..Len(rLog) : (rLog[i].ok => i = Len(rLog))

\* C10: withRetry terminates when the operation does: it settles after at least
\* one and at most maxRetries + 1 invocations (4 with the defaults), never
\* invokes the operation again once settled, and retries after every thrown
\* error regardless of its kind.
C10_Terminates ==
  /\ []C10_Bounded
  /\ [][rState.status # "running" => rLog' = rLog]_vars
  /\ <>(rState.status # "running")

\* C10 witness: under the defaults the fourth invocation succeeded after three
\* throws of three different kinds.
C10_Witness ==
  /\ rOptions.maxRetries = Undefined
  /\ rState.status = "resolved"
  /\ Len(rLog) = 4
  /\ {rLog[i].error : i \in 1..3} = ErrorKinds

\* C11: withRetry waits delay * 2^k ms after failed attempt k (k = 0, 1, ...)
\* with backoff and exactly delay ms without; with the defaults the waits are
\* 1000, 2000, 4000 ms; there is one wait after every failed attempt but the
\* final one; an option left out of the options object takes its default
\* 3 / 1000 / true.
C11_Waits ==
  LET maxRetries == IF rOptions.maxRetries = Undefined THEN 3 ELSE Get(rOptions.maxRetries)
      delay == IF rOptions.delay = Undefined THEN 1000 ELSE Get(rOptions.delay)
      backoff == IF rOptions.backoff = Undefined THEN TRUE ELSE Get(rOptions.backoff)
      failed == Cardinality({i \in 1..Len(rLog) : ~rLog[i].ok})
  IN /\ \A k \in 0..(Len(rState.waits) - 1) :
          rState.waits[k + 1] = IF backoff THEN delay * 2 ^ k ELSE delay
     /\ Len(rState.waits) = IF rState.status = "rejected" THEN failed - 1 ELSE failed
     /\ (rState.status = "rejected" => Len(rState.waits) = maxRetries)
     /\ (rOptions = [maxRetries |-> Undefined, delay |-> Undefined, backoff |-> Undefined]
           => \A k \in 1..Len(rState.waits) : rState.waits[k] = <<1000, 2000, 4000>>[k])

\* C11 witness: with only maxRetries left out of the options, a delay of 500
\* and backoff, all four attempts failed and the waits were 500, 1000, 2000.
C11_Witness ==
  /\ rOptions = [maxRetries |-> Undefined, delay |-> Some(OtherDelay), backoff |-> Some(TRUE)]
  /\ rState.status = "rejected"
  /\ rState.waits = <<OtherDelay, 2 * OtherDelay, 4 * OtherDelay>>

\* C12: canAfford(cost) has no side effect: it changes neither the local nor
\* the persisted balance nor the toast queue. It returns true exactly when a
\* balance is loaded and coins + bonus_coins >= cost; on the same balance
\* canAfford(cost) is true iff spendCoins(cost) passes its affordability check.
C12_CanAfford ==
  [][\A s \in Sessions, cost \in SpendAmounts :
       /\ CanAfford(s, cost) =>
            /\ UNCHANGED <<dbBalance, balance, errors, timers, dbUnlocks, unlockedEpisodes, pc>>
            /\ ret'[s] = "true" <=>
                 (balance[s] # Undefined
                    /\ Get(balance[s]).coins + Get(balance[s]).bonus_coins >= cost)
       /\ (SpendCoins(s, cost) /\ balance[s] # Undefined) =>
            /\ canAfford(s, cost) <=> pc'[s] = "updateBalance"
            /\ ~canAfford(s, cost) <=> Messages(errors') = Append(Messages(errors), WarningToast)]_vars

\* C12 witness: canAfford returned true for a positive cost equal to the whole
\* loaded balance, which is still as loaded.
C12_Witness ==
  /\ Returned("s1", "canAfford", "true")
  /\ balance["s1"] = Some(dbBalance)
  /\ ctx["s1"].amount = Total(dbBalance) /\ ctx["s1"].amount > 0

\* C13: addCoins(c, b) on a loaded balance issues one update of user_balances
\* carrying coins + c and bonus_coins + b; when the update succeeds the row
\* holds both values, the local balance equals the row and the call returns
\* true. With no balance loaded it returns false and issues no update.
C13_AddCoins ==
  [][\A s \in Sessions :
       /\ \A c \in AddAmounts, b \in AddAmounts :
            AddCoins(s, c, b) =>
              IF balance[s] = Undefined
                THEN /\ ret'[s] = "false" /\ pc'[s] = "idle"
                     /\ UNCHANGED <<dbBalance, balance>>
                ELSE /\ pc'[s] = "updateBalance"
                     /\ ctx'[s].newCoins = Get(balance[s]).coins + c
                     /\ ctx'[s].newBonusCoins = Get(balance[s]).bonus_coins + b
                     /\ UNCHANGED <<dbBalance, balance>>
       /\ (/\ pc[s] = "updateBalance" /\ ctx[s].flow = "addCoins"
           /\ pc'[s] = "idle" /\ ctx'[s].error = NoError)
          => /\ ret'[s] = "true"
             /\ dbBalance' = Row(ctx[s].newCoins, ctx[s].newBonusCoins)
             /\ balance'[s] = Some(dbBalance')]_vars

\* C13 witness: addCoins(1, 1) on the loaded balance {0, 0} returned true; the
\* row and the local balance are {1, 1}.
C13_Witness ==
  /\ Returned("s1", "addCoins", "true")
  /\ ctx["s1"].seen = Some(Row(0, 0))
  /\ dbBalance = Row(1, 1) /\ balance["s1"] = Some(Row(1, 1))

----------------------------------------------------------------------------
(* SpecWatchlist: one session running the watchlist and category hooks *)

WatchlistInit ==
  /\ dbBalance = Row(0, 0)
  /\ dbUnlocks = [m \in Episodes |-> 0]
  /\ userId \in [Sessions -> BOOLEAN] /\ ~userId["s2"]
  /\ balance = [s \in Sessions |-> Undefined]
  /\ unlockedEpisodes = [s \in Sessions |-> {}]
  /\ pc = [s \in Sessions |-> "idle"]
  /\ ctx = [s \in Sessions |-> NoCall]
  /\ ret = [s \in Sessions |-> "none"]
  /\ errors = <<>>
  /\ timers = {}
  /\ player = Unmounted
  /\ app = AppIdle
  /\ hookStatus = [s \in Sessions |-> [h \in Hooks |-> HookIdle]]
  /\ errorsObserved = FALSE /\ timersObserved = FALSE /\ statusObserved = FALSE
  /\ RetryIdle
  /\ dbWatchlist = [m \in Movies |-> NoRow]
  /\ dbCategories \in {Named(ids) : ids \in SUBSET Categories}
  /\ watchlist = [s \in Sessions |-> {}]
  /\ watchlistIds = [s \in Sessions |-> {}]
  /\ categories = [s \in Sessions |-> {}]
  /\ HistoryIdle
  /\ CommentsIdle

WatchlistNext ==
  \/ FetchWatchlist("s1")
  \/ FetchWatchlistSettle("s1")
  \/ \E m \in Movies, c \in Categories \cup {NullCategory} : AddToWatchlistWithCategory("s1", m, c)
  \/ InsertWatchlistSettle("s1")
  \/ \E m \in Movies : RemoveFromWatchlist("s1", m)
  \/ DeleteWatchlistSettle("s1")
  \/ FetchCategories("s1")
  \/ FetchCategoriesSettle("s1")
  \/ \E c \in Categories : DeleteCategory("s1", c)
  \/ DeleteCategorySettle("s1")

SpecWatchlist == WatchlistInit /\ [][WatchlistNext]_vars

\* C14: after any sequence of fetchWatchlist, addToWatchlist,
\* addToWatchlistWithCategory and removeFromWatchlist operations, successful or
\* failed, of a signed-in user, once none is in flight isInWatchlist(id) is
\* true exactly for the movie ids that have a persisted user_watchlist row.
C14_IsInWatchlistExact ==
  \A s \in Sessions :
    (/\ userId[s] /\ pc[s] = "idle"
     /\ ctx[s].flow \in {"fetchWatchlist", "addToWatchlist", "removeFromWatchlist"})
    => \A id \in Movies : isInWatchlist(s, id) <=> dbWatchlist[id] # NoRow

\* C15: deleting a watchlist category removes no user_watchlist row: every row
\* that referenced the deleted category is still there with category_id = null,
\* and the rows referencing other categories, or none, are unchanged.
C15_DeleteCategoryKeepsItems ==
  [][\A s \in Sessions :
       (pc[s] = "deleteCategory" /\ pc'[s] = "fetchCategories")
       => /\ ctx[s].categoryId \notin CategoryIds(dbCategories')
          /\ \A m \in Movies :
               /\ dbWatchlist[m] # NoRow => dbWatchlist'[m] # NoRow
               /\ dbWatchlist'[m] =
                    IF dbWatchlist[m] = ctx[s].categoryId THEN "null" ELSE dbWatchlist[m]]_vars

\* C15 witness: category c1 was deleted; movie 1, which the list fetched before
\* still shows in c1, has its row with category_id = null, and movie 2 is
\* still in c2.
C15_Witness ==
  /\ Returned("s1", "deleteCategory", "true") /\ ctx["s1"].categoryId = "c1"
  /\ dbCategories = Named({"c2"})
  /\ [id |-> 1, category_id |-> "c1"] \in watchlist["s1"]
  /\ dbWatchlist = [m \in Movies |-> IF m = 1 THEN "null" ELSE "c2"]

----------------------------------------------------------------------------
(* SpecHistory: two overlapping callers of the watch-history hook *)

HistoryInit ==
  /\ dbBalance = Row(0, 0)
  /\ dbUnlocks = [m \in Episodes |-> 0]
  /\ userId = [s \in Sessions |-> TRUE]
  /\ balance = [s \in Sessions |-> Undefined]
  /\ unlockedEpisodes = [s \in Sessions |-> {}]
  /\ pc = [s \in Sessions |-> "idle"]
  /\ ctx = [s \in Sessions |-> NoCall]
  /\ ret = [s \in Sessions |-> "none"]
  /\ errors = <<>>
  /\ timers = {}
  /\ player = Unmounted
  /\ app = AppIdle
  /\ hookStatus = [s \in Sessions |-> [h \in Hooks |-> HookIdle]]
  /\ errorsObserved = FALSE /\ timersObserved = FALSE /\ statusObserved = FALSE
  /\ RetryIdle
  /\ WatchlistIdle
  /\ HistoryIdle
  /\ CommentsIdle

HistoryNext ==
  \/ \E s \in Sessions : FetchWatchHistory(s)
  \/ \E s \in Sessions : FetchWatchHistorySettle(s)
  \/ \E s \in Sessions, m \in Movies, p \in ProgressValues, d \in DurationValues :
       AddToWatchHistory(s, m, p, d)
  \/ \E s \in Sessions : UpsertHistoryAttempt(s)
  \/ \E s \in Sessions, m \in Movies : RemoveFromWatchHistory(s, m)
  \/ \E s \in Sessions : DeleteHistoryAttempt(s)

SpecHistory == HistoryInit /\ [][HistoryNext]_vars

\* The values a progress save of p tenths of d tenths must leave in the row.
Floored(p, d) == [progress_seconds |-> CHOOSE n \in 0..p : n * 10 <= p /\ p < (n + 1) * 10,
                  total_duration_seconds |-> CHOOSE n \in 0..d : n * 10 <= d /\ d < (n + 1) * 10]

\* C16: after any sequence of addToWatchHistory and removeFromWatchHistory
\* calls, retried and overlapping ones included, user_watch_history holds at
\* most one row per (user_id, movie_id); the table changes only by an upsert or
\* a delete being applied, and an applied upsert leaves in the movie's row its
\* progress_seconds and total_duration_seconds floored to integers, so the row
\* carries the values of the most recently applied upsert.
C16_OneRowPerMovie ==
  /\ [](\A m \in Movies : Len(dbHistory[m]) <= 1)
  /\ [][dbHistory' # dbHistory =>
          \E s \in Sessions :
            \/ /\ pc[s] = "upsertHistory"
               /\ dbHistory' = [dbHistory EXCEPT ![ctx[s].movieId] =
                    <<Floored(ctx[s].progressSeconds, ctx[s].totalDurationSeconds)>>]
            \/ /\ pc[s] = "deleteHistory"
               /\ dbHistory' = [dbHistory EXCEPT ![ctx[s].movieId] = <<>>]]_vars
  /\ [][\A s \in Sessions :
          (pc[s] = "upsertHistory" /\ pc'[s] = "fetchWatchHistory")
          => dbHistory'[ctx[s].movieId] =
               <<Floored(ctx[s].progressSeconds, ctx[s].totalDurationSeconds)>>]_vars

\* C16 witness: two saves for movie 1 overlap, the one with progress 1.9 s on a
\* retry after the other, with 0.5 s, was applied; the single row of the movie
\* holds 1 s of 2 s.
C16_Witness ==
  /\ pc["s1"] = "upsertHistory" /\ ctx["s1"].movieId = 1
  /\ ctx["s1"].progressSeconds = 19 /\ ctx["s1"].retry.attempt >= 1
  /\ pc["s2"] = "fetchWatchHistory" /\ ctx["s2"].movieId = 1
  /\ ctx["s2"].progressSeconds = 5
  /\ dbHistory[1] = <<[progress_seconds |-> 1, total_duration_seconds |-> 2]>>

----------------------------------------------------------------------------
(* SpecComments: two clients, one of them signed in as u1, on one movie's comments *)

CommentsInit ==
  /\ dbBalance = Row(0, 0)
  /\ dbUnlocks = [m \in Episodes |-> 0]
  /\ userId = [s \in Sessions |-> FALSE]
  /\ balance = [s \in Sessions |-> Undefined]
  /\ unlockedEpisodes = [s \in Sessions |-> {}]
  /\ pc = [s \in Sessions |-> "idle"]
  /\ ctx = [s \in Sessions |-> NoCall]
  /\ ret = [s \in Sessions |-> "none"]
  /\ errors = <<>>
  /\ timers = {}
  /\ player = Unmounted
  /\ app = AppIdle
  /\ hookStatus = [s \in Sessions |-> [h \in Hooks |-> HookIdle]]
  /\ errorsObserved = FALSE /\ timersObserved = FALSE /\ statusObserved = FALSE
  /\ RetryIdle
  /\ WatchlistIdle
  /\ HistoryIdle
  /\ dbComments = [id \in CommentIds |-> UnusedComment]
  /\ comments = [s \in Sessions |-> {}]
  /\ authUid \in [Sessions -> Users \cup {Anon}]
  /\ authUid["s1"] = "u1" /\ authUid["s2"] # "u1"

CommentsNext ==
  \/ \E s \in Sessions : FetchComments(s)
  \/ \E s \in Sessions : FetchCommentsSettle(s)
  \/ \E s \in Sessions, u \in Users : AddComment(s, u, "a")
  \/ \E s \in Sessions : InsertCommentSettle(s)
  \/ \E s \in Sessions, id \in CommentIds, u \in Users : DeleteComment(s, id, u)
  \/ \E s \in Sessions : DeleteCommentSettle(s)
  \/ \E s \in Sessions, id \in CommentIds : UpdateCommentText(s, id, "b")

SpecComments == CommentsInit /\ [][CommentsNext]_vars

\* Session s takes the step.
Steps(s) == pc'[s] # pc[s] \/ ctx'[s] # ctx[s]

\* C17: a comment is deleted or updated only by its owner: a live row changes
\* only in a step of a session whose auth.uid() is the row's user_id; after a
\* deleteComment(commentId, userId) with userId different from the comment's
\* user_id the row is still there; and every client, signed in or not, reads
\* all comments.
C17_OwnerOnly ==
  [][/\ \A id \in CommentIds :
          (dbComments[id].status = "live" /\ dbComments'[id] # dbComments[id])
          => \E s \in Sessions : Steps(s) /\ authUid[s] = dbComments[id].user_id
     /\ \A s \in Sessions :
          (/\ pc[s] = "deleteComment" /\ Steps(s)
           /\ dbComments[ctx[s].commentId].status = "live"
           /\ ctx[s].userIdArg # dbComments[ctx[s].commentId].user_id)
          => dbComments'[ctx[s].commentId] = dbComments[ctx[s].commentId]
     /\ \A s \in Sessions :
          (pc[s] = "fetchComments" /\ Steps(s) /\ ctx'[s].error = NoError)
          => comments'[s] = {id \in CommentIds : dbComments[id].status = "live"}]_vars

\* C17 witness: the client signed in as u2 called deleteComment on u1's comment
\* with u1's id as userId; the call returned true, and the comment is still
\* there and is read by that client.
C17_Witness ==
  /\ authUid["s2"] = "u2"
  /\ Returned("s2", "deleteComment", "true")
  /\ ctx["s2"].commentId = 1 /\ ctx["s2"].userIdArg = "u1"
  /\ dbComments[1] = Comment("u1", "a")
  /\ 1 \in comments["s2"]

----------------------------------------------------------------------------
(* SpecToasts: the toast queue with its expiry timers
   (contexts/ErrorContext.tsx, components/ErrorToast.tsx) *)

\* What the toast queue leaves alone.
offToasts == <<coinVars, userId, pc, ctx, ret, errorsObserved, timersObserved, hookStatus, statusObserved, offLedger>>

\* What callers hand to addError: a toast built by createErrorMessage, or a
\* message that names no duration.
ToastTypes == {"error", "warning", "info", "success"}
NoDuration == [type |-> "info", retry |-> "none", duration |-> 0]
ToastInputs == {createErrorMessage(t, "none") : t \in ToastTypes} \cup {NoDuration}

\* A caller adds a toast.
AddError(e) ==
  /\ Toasts(<<e>>)
  /\ UNCHANGED offToasts

\* Time passes: d milliseconds, no more than the next pending timer allows
\* (a timer that is due fires before time moves on).
Elapse(d) ==
  /\ timers # {}
  /\ \A t \in timers : t.after >= d
  /\ timers' = {[t EXCEPT !.after = @ - d] : t \in timers}
  /\ UNCHANGED <<errors, offToasts>>

\* The expiry timer of toast `id` is due and fires: removeError(id).
TimerFires(id) ==
  /\ \E t \in timers :
       /\ t.id = id
       /\ t.after = 0
       /\ timers' = timers \ {t}
  /\ errors' = removeError(errors, id)
  /\ UNCHANGED offToasts

\* ErrorToast, the X button of the i-th toast: removeError(error.id).
DismissClick(i) ==
  /\ i \in 1..Len(errors)
  /\ errors' = removeError(errors, errors[i].id)
  /\ UNCHANGED <<timers, offToasts>>

\* ErrorToast, the retry button of the i-th toast (shown when the toast has a
\* retryAction): the action is called, then removeError(error.id). The retry
\* toasts of this specification carry fetchBalance.
RetryClick(s, i) ==
  /\ i \in 1..Len(errors)
  /\ errors[i].retry = "fetchBalance"
  /\ fetchBalance(s)
  /\ errors' = removeError(errors, errors[i].id)
  /\ UNCHANGED timers

\* clearAllErrors().
ClearAllErrors ==
  /\ errors' = clearAllErrors(errors)
  /\ UNCHANGED <<timers, offToasts>>

ToastsInit ==
  /\ Mounted({"s1"})
  /\ userId["s1"]
  /\ dbBalance = Row(0, 0)
  /\ errorsObserved = TRUE /\ timersObserved = TRUE /\ statusObserved = FALSE
  /\ RetryIdle

ToastIds == 1..MaxTimers

ToastsNext ==
  \/ \E e \in ToastInputs : AddError(e)
  \/ \E k \in 1..3 : Elapse(k * 1000)
  \/ \E id \in ToastIds : TimerFires(id)
  \/ \E i \in 1..MaxToasts : DismissClick(i)
  \/ \E i \in 1..MaxToasts : RetryClick("s1", i)
  \/ ClearAllErrors
  \/ FetchBalance("s1")
  \/ FetchBalanceSettle("s1")

SpecToasts == ToastsInit /\ [][ToastsNext]_vars

\* Timers fire and time passes on their own; nobody has to click anything.
SpecToastsFair ==
  /\ SpecToasts
  /\ WF_vars(\E k \in 1..3 : Elapse(k * 1000))
  /\ WF_vars(\E id \in ToastIds : TimerFires(id))

----------------------------------------------------------------------------
(* Properties of the toast queue *)

\* The toast with this id is in the queue.
Live(id) == id \in Ids(errors)

\* The timer addError has set in this step, if any.
NewTimers == timers' \ timers

\* C18: every toast added with addError is removed from the queue without any
\* user action once its duration has passed. addError sets a timer for the
\* toast it appends: 3000 ms for a toast built by createErrorMessage with type
\* 'success', 5000 ms for the other types and for a message without a (or with a
\* zero) duration; a toast leaves the queue by a click or when its timer is
\* due; and with nothing but time passing and timers firing every toast of the
\* queue eventually leaves it.
C18_Expires ==
  /\ [][\A t \in ToastTypes :
          AddError(createErrorMessage(t, "none"))
            => NewTimers = {[id |-> errors'[Len(errors')].id,
                             after |-> IF t = "success" THEN 3000 ELSE 5000]}]_vars
  /\ [][AddError(NoDuration)
          => NewTimers = {[id |-> errors'[Len(errors')].id, after |-> 5000]}]_vars
  /\ [][\A id \in ToastIds :
          Live(id) /\ ~Live(id)'
            => \/ [id |-> id, after |-> 0] \in timers
               \/ \E i \in 1..MaxToasts : DismissClick(i) \/ RetryClick("s1", i)
               \/ ClearAllErrors]_vars
  /\ \A id \in ToastIds : Live(id) ~> ~Live(id)

\* Toast 1 has gone together with its timer, which therefore has fired; toast 2,
\* added at the same moment for 5000 ms, has 2000 ms left: a toast of 3000 ms
\* has expired on time.
C18_Witness ==
  /\ Ids(errors) = {2}
  /\ errors[1].duration = 5000
  /\ timers = {[id |-> 2, after |-> 2000]}

\* `after` is `before` without the entries of this id: every other entry is
\* kept, at the place its rank among the kept ones gives it.
Removed(before, after, id) ==
  LET keep == {i \in 1..Len(before) : before[i].id # id}
      rank(i) == Cardinality({j \in keep : j <= i})
  IN  /\ Len(after) = Cardinality(keep)
      /\ Len(after) >= Len(before) - 1
      /\ \A i \in keep : after[rank(i)] = before[i]

\* `after` is `before` with one entry more at the end.
Appended(before, after) ==
  /\ Len(after) = Len(before) + 1
  /\ SubSeq(after, 1, Len(before)) = before
  /\ after[Len(after)].id \notin Ids(before)

\* C19: the queue holds the live toasts in the order of their addError calls.
\* addError appends at the end and changes no existing entry; removeError(id),
\* called by a timer, by the X button or by the retry button, removes only the
\* entry with that id and keeps the others in their order, and it changes
\* nothing when no entry has the id (the timer of a toast that was dismissed by
\* hand fires).
C19_QueueOrder ==
  [][/\ \A e \in ToastInputs : AddError(e) => Appended(errors, errors')
     /\ FetchBalanceSettle("s1") => errors' = errors \/ Appended(errors, errors')
     /\ \A id \in ToastIds :
          TimerFires(id) => /\ Removed(errors, errors', id)
                            /\ ~Live(id) => errors' = errors
     /\ \A i \in 1..MaxToasts :
          DismissClick(i) \/ RetryClick("s1", i)
            => /\ Removed(errors, errors', errors[i].id)
               /\ Len(errors') = Len(errors) - 1]_vars

\* Toast 2 was dismissed by hand (toast 3 found room in the full queue while
\* toast 1 was there) and the timer of toast 2 has fired since, 3000 ms after
\* toasts 1 and 2 were added: toasts 1 and 3 are still there, in their order.
C19_Witness ==
  /\ Len(errors) = 2
  /\ Len(errors) = MaxToasts
  /\ errors[1].id = 1 /\ errors[1].duration = 5000
  /\ errors[2].id = 3 /\ errors[2].duration = 5000
  /\ timers = {[id |-> 1, after |-> 2000], [id |-> 3, after |-> 3000]}

----------------------------------------------------------------------------
(* SpecTimers: everything that is scheduled. The toast queue with its expiry
   timers, and the VideoPlayer with its progress-save interval and its
   controls auto-hide timeout (components/VideoPlayer.tsx) *)

offPlayer == <<ledgerVars, retryVars, watchVars, historyVars, commentVars, app>>

\* The handle setInterval or setTimeout returns: one that no pending timer has
\* and that the ref does not hold from before.
FreshHandle(pending, ref) ==
  CHOOSE h \in 1..(Cardinality(pending) + 2) :
    /\ h \notin pending \cup {ref}
    /\ \A j \in 1..(h - 1) : j \in pending \cup {ref}

\* `if (ref.current) clearInterval(ref.current)`, the same for clearTimeout.
clearInterval(p) ==
  IF p.progressUpdateIntervalRef # 0
    THEN [p EXCEPT !.intervals = @ \ {p.progressUpdateIntervalRef}]
    ELSE p

clearTimeout(p) ==
  IF p.controlsTimeoutRef # 0
    THEN [p EXCEPT !.timeouts = @ \ {p.controlsTimeoutRef}]
    ELSE p

\* Mutant of progressEffect: the interval is set whatever the state.
progressEffect_Always(p) ==
  LET h == FreshHandle(p.intervals, p.progressUpdateIntervalRef)
  IN  [p EXCEPT !.intervals = @ \cup {h}, !.progressUpdateIntervalRef = h]

\* The effect "update watch history every 10 seconds".
progressEffect(p) ==
  IF p.isPlaying /\ p.duration > 0
    THEN LET h == FreshHandle(p.intervals, p.progressUpdateIntervalRef)
         IN  [p EXCEPT !.intervals = @ \cup {h}, !.progressUpdateIntervalRef = h]
    ELSE clearInterval(p)

\* The effect "auto-hide controls".
controlsEffect(p) ==
  IF p.showControls
    THEN LET q == clearTimeout(p)
             h == FreshHandle(q.timeouts, q.controlsTimeoutRef)
         IN  [q EXCEPT !.timeouts = @ \cup {h}, !.controlsTimeoutRef = h]
    ELSE p

\* A render after the state went from `old` to `new`: every effect with a
\* changed dependency runs its cleanup and then its body.
Render(old, new) ==
  LET p == IF <<old.isPlaying, old.duration>> # <<new.isPlaying, new.duration>>
             THEN progressEffect(clearInterval(new))
             ELSE new
  IN  IF <<old.showControls, old.isPlaying>> # <<new.showControls, new.isPlaying>>
        THEN controlsEffect(clearTimeout(p))
        ELSE p

SetPlayer(new) ==
  /\ player.mounted
  /\ player' = Render(player, new)
  /\ UNCHANGED offPlayer

\* The player is mounted: the initial state, and both effects run.
MountPlayer ==
  /\ ~player.mounted
  /\ player' = controlsEffect(progressEffect(
                 [Unmounted EXCEPT !.mounted = TRUE, !.showControls = TRUE]))
  /\ UNCHANGED offPlayer

\* The player is unmounted: both effects run their cleanup.
UnmountPlayer ==
  /\ player.mounted
  /\ player' = [clearTimeout(clearInterval(player)) EXCEPT
                  !.mounted = FALSE, !.isPlaying = FALSE, !.duration = 0,
                  !.showControls = FALSE, !.reported = FALSE,
                  !.progressUpdateIntervalRef = 0, !.controlsTimeoutRef = 0]
  /\ UNCHANGED offPlayer

\* handleLoadedMetadata: setDuration(video.duration).
LoadedMetadata == \E d \in DurationValues : SetPlayer([player EXCEPT !.duration = d])

\* handlePlay, handlePause.
HandlePlay == SetPlayer([player EXCEPT !.isPlaying = TRUE])
HandlePause == SetPlayer([player EXCEPT !.isPlaying = FALSE])

\* onMouseMove, onMouseLeave of the player.
MouseMove == SetPlayer([player EXCEPT !.showControls = TRUE])
MouseLeave == SetPlayer([player EXCEPT !.showControls = IF player.isPlaying THEN FALSE ELSE @])

\* The auto-hide timeout fires: the controls are hidden while playing.
ControlsTimeoutFires ==
  /\ \E h \in player.timeouts :
       LET fired == [player EXCEPT !.timeouts = @ \ {h}]
       IN  player' = Render(fired, [fired EXCEPT !.showControls = IF fired.isPlaying THEN FALSE ELSE @])
  /\ UNCHANGED offPlayer

\* Everything but the player and the running call of a session.
offProgress ==
  <<dbBalance, dbUnlocks, userId, balance, unlockedEpisodes, ret, errors, errorsObserved,
    timers, timersObserved, hookStatus, statusObserved, retryVars, watchVars, historyVars,
    commentVars>>

\* The App's handleProgressUpdate, the player's onProgressUpdate: with a user
\* addToWatchHistory is called, which issues the upsert; without one nothing.
handleProgressUpdate(s, movieId, progressSeconds, totalDurationSeconds) ==
  IF userId[s]
    THEN Await(s, "upsertHistory",
               [Call("addToWatchHistory", 0, movieId, Undefined) EXCEPT
                  !.progressSeconds = progressSeconds,
                  !.totalDurationSeconds = totalDurationSeconds])
    ELSE UNCHANGED <<pc, ctx>>

\* The progress interval fires in the App of session s, the video at
\* currentTime: onProgressUpdate(movie.id, currentTime, duration) is called, the
\* interval stays.
ProgressIntervalFires(s, currentTime) ==
  /\ player.intervals # {}
  /\ pc[s] = "idle"
  /\ player' = [player EXCEPT !.reported = TRUE]
  /\ handleProgressUpdate(s, 1, currentTime, player.duration)
  /\ UNCHANGED <<offProgress, app>>

TimersNext ==
  \/ AddError(createErrorMessage("success", "none"))
  \/ \E k \in 1..3 : Elapse(k * 1000)
  \/ \E id \in ToastIds : TimerFires(id)
  \/ \E i \in 1..MaxToasts : DismissClick(i)
  \/ \E i \in 1..MaxToasts : RetryClick("s1", i)
  \/ ClearAllErrors
  \/ FetchBalance("s1")
  \/ FetchBalanceSettle("s1")
  \/ MountPlayer
  \/ UnmountPlayer
  \/ LoadedMetadata
  \/ HandlePlay
  \/ HandlePause
  \/ MouseMove
  \/ MouseLeave
  \/ ControlsTimeoutFires
  \/ \E t \in ProgressValues : ProgressIntervalFires("s2", t)

SpecTimers == ToastsInit /\ [][TimersNext]_vars

\* After the player has unmounted none of its timers is pending.
PlayerTimersCancelled ==
  ~player.mounted => player.intervals = {} /\ player.timeouts = {}

\* While the player is mounted only the timer its ref holds can be pending.
PlayerTimersOwned ==
  /\ player.intervals \subseteq {player.progressUpdateIntervalRef}
  /\ player.timeouts \subseteq {player.controlsTimeoutRef}

\* C20: every scheduled timer is cancelled on cleanup. After the video player
\* has unmounted no progress-save interval and no auto-hide timeout is pending,
\* and once a toast has left the queue (removeError, the retry button,
\* clearAllErrors) no expiry timer of that toast is pending.
C20_TimersCancelled ==
  /\ PlayerTimersCancelled
  /\ \A t \in timers : Live(t.id)

----------------------------------------------------------------------------
(* SpecFetch: the fetch of each of the six data hooks, with `loading`, `error`
   and the toast queue observed *)

\* A signed-in user with something of everything in the database.
FetchInit ==
  /\ dbBalance = Row(1, 1)
  /\ dbUnlocks = [m \in Episodes |-> IF m = 1 THEN 1 ELSE 0]
  /\ userId = [s \in Sessions |-> s = "s1"]
  /\ balance = [s \in Sessions |-> Undefined]
  /\ unlockedEpisodes = [s \in Sessions |-> {}]
  /\ pc = [s \in Sessions |-> "idle"]
  /\ ctx = [s \in Sessions |-> NoCall]
  /\ ret = [s \in Sessions |-> "none"]
  /\ errors = <<>>
  /\ timers = {}
  /\ player = Unmounted
  /\ app = AppIdle
  /\ hookStatus = [s \in Sessions |-> [h \in Hooks |-> HookIdle]]
  /\ errorsObserved = TRUE /\ timersObserved = FALSE /\ statusObserved = TRUE
  /\ RetryIdle
  /\ dbWatchlist = [m \in Movies |-> IF m = 1 THEN NullCategory ELSE NoRow]
  /\ dbCategories = Named({"c1"})
  /\ watchlist = [s \in Sessions |-> {}]
  /\ watchlistIds = [s \in Sessions |-> {}]
  /\ categories = [s \in Sessions |-> {}]
  /\ dbHistory = [m \in Movies |-> IF m = 1 THEN <<HistoryRow(19, 27)>> ELSE <<>>]
  /\ continueWatching = [s \in Sessions |-> [m \in Movies |-> <<>>]]
  /\ dbComments = [id \in CommentIds |-> Comment("u1", "a")]
  /\ comments = [s \in Sessions |-> {}]
  /\ authUid = [s \in Sessions |-> IF s = "s1" THEN "u1" ELSE Anon]

FetchNext ==
  \/ FetchBalance("s1")
  \/ FetchBalanceSettle("s1")
  \/ FetchUnlockedEpisodes("s1")
  \/ FetchUnlockedEpisodesSettle("s1")
  \/ FetchWatchlist("s1")
  \/ FetchWatchlistSettle("s1")
  \/ FetchCategories("s1")
  \/ FetchCategoriesSettle("s1")
  \/ FetchWatchHistory("s1")
  \/ FetchWatchHistorySettle("s1")
  \/ FetchComments("s1")
  \/ FetchCommentsSettle("s1")
  \/ \E i \in 1..MaxToasts : RemoveError(i)

SpecFetch == FetchInit /\ [][FetchNext]_vars

\* The remote call each hook's fetch awaits, the data the hook holds, and the
\* empty value of that data.
Fetches ==
  [h \in Hooks |->
     CASE h = "useUserCoins" -> "fetchBalance"
       [] h = "useEpisodeUnlocks" -> "fetchUnlockedEpisodes"
       [] h = "useWatchlist" -> "fetchWatchlist"
       [] h = "useWatchlistCategories" -> "fetchCategories"
       [] h = "useWatchHistory" -> "fetchWatchHistory"
       [] OTHER -> "fetchComments"]

DataIsEmpty(s, h) ==
  CASE h = "useUserCoins" -> balance[s] = Undefined
    [] h = "useEpisodeUnlocks" -> unlockedEpisodes[s] = {}
    [] h = "useWatchlist" -> watchlist[s] = {} /\ watchlistIds[s] = {}
    [] h = "useWatchlistCategories" -> categories[s] = {}
    [] h = "useWatchHistory" -> \A m \in Movies : continueWatching[s][m] = <<>>
    [] OTHER -> comments[s] = {}

\* The fetch of hook h has failed: its data is empty, its error message is set,
\* it is not loading.
FetchFailed(s, h) ==
  /\ DataIsEmpty(s, h)
  /\ hookStatus[s][h].error # Undefined
  /\ ~hookStatus[s][h].loading

\* C21: no remote-call failure escapes a data hook. A fetch (balance, unlocks,
\* watchlist, categories, watch history, comments) that comes back either
\* succeeded, and then no toast is added and no error is recorded, or failed
\* once its retries were used up, and then the hook returns normally, its data
\* is the empty value, the error message is recorded, one 'error' toast with
\* the fetch as its retry action is added at the end of the queue, and loading
\* is false again.
C21_FetchFailure ==
  [][\A h \in Hooks :
       pc["s1"] = Fetches[h] /\ pc'["s1"] = "idle"
         => \/ /\ hookStatus'["s1"][h] = HookIdle
               /\ ~DataIsEmpty("s1", h)'
               /\ UNCHANGED errors
            \/ /\ FetchFailed("s1", h)'
               /\ Messages(errors') = Append(Messages(errors), RetryToast(Fetches[h]))
               /\ ret' = ret]_vars

\* fetchBalance and then fetchWatchHistory have failed.
C21_Witness ==
  /\ pc["s1"] = "idle"
  /\ FetchFailed("s1", "useUserCoins")
  /\ FetchFailed("s1", "useWatchHistory")
  /\ Messages(errors) = <<RetryToast("fetchBalance"), RetryToast("fetchWatchHistory")>>

----------------------------------------------------------------------------
(* SpecCategories: one caller creating, renaming and deleting categories *)

\* The names a caller types, and name.trim() of them.
NameInputs == {"a", " a ", "b"}
trim(name) ==
  CASE name = " a " -> "a"
    [] name = " " -> ""
    [] OTHER -> name

\* createCategory(name) up to the insert: without a user false at once. The
\* insert needs an id no row holds (gen_random_uuid()).
CreateCategory(s, name) ==
  /\ pc[s] = "idle"
  /\ CategoryIds(dbCategories) # Categories
  /\ LET c == [Call("createCategory", 0, 0, Undefined) EXCEPT !.name = name]
     IN IF ~userId[s]
          THEN Return(s, "false", c)
          ELSE Await(s, "insertCategory", c) /\ UNCHANGED ret
  /\ UNCHANGED <<watchVars, errors, timers, hookStatus, offWatchlist>>

\* updateCategory(categoryId, name, color) up to the update.
UpdateCategory(s, categoryId, name) ==
  /\ pc[s] = "idle"
  /\ LET c == [Call("updateCategory", 0, 0, Undefined)
                 EXCEPT !.name = name, !.categoryId = categoryId]
     IN IF ~userId[s]
          THEN Return(s, "false", c)
          ELSE Await(s, "updateCategory", c) /\ UNCHANGED ret
  /\ UNCHANGED <<watchVars, errors, timers, hookStatus, offWatchlist>>

\* Mutant of NameTaken: the table has no UNIQUE(user_id, name).
NameTaken_Never(rows, id, name) == FALSE

\* UNIQUE(user_id, name): some other row of the user has the name.
NameTaken(rows, id, name) == \E row \in rows : row.id # id /\ row.name = name

\* The database's answer to the insert into user_watchlist_categories of
\* {user_id, name: name.trim(), color}.
InsertCategory(rows, name) ==
  IF NameTaken(rows, "new", trim(name))
    THEN [rows |-> rows, outcome |-> Thrown("duplicate")]
    ELSE [rows |-> rows \cup {Category(CHOOSE id \in Categories : id \notin CategoryIds(rows),
                                       trim(name))},
          outcome |-> Resolved("ok")]

\* The database's answer to the update of {name: name.trim(), color} where
\* id = categoryId and user_id = userId: no matching row is no error.
UpdateCategoryRow(rows, categoryId, name) ==
  IF categoryId \notin CategoryIds(rows)
    THEN [rows |-> rows, outcome |-> Resolved("ok")]
    ELSE IF NameTaken(rows, categoryId, trim(name))
      THEN [rows |-> rows, outcome |-> Thrown("duplicate")]
      ELSE [rows |-> {IF row.id = categoryId THEN Category(row.id, trim(name)) ELSE row :
                        row \in rows},
            outcome |-> Resolved("ok")]

\* The catch block of createCategory and updateCategory: a warning toast when the
\* error caught mentions the uniqueness violation, otherwise an error toast with
\* a Retry; false.
CategoryFailed(s, err) ==
  /\ Toasts(<<IF IsDuplicate(err)
                THEN createErrorMessage("warning", "none")
                ELSE createErrorMessage("error", ctx[s].flow)>>)
  /\ Return(s, "false", [ctx[s] EXCEPT !.error = err])

\* createCategory and updateCategory from the write on: on success
\* fetchCategories is awaited.
CategorySettle(s, answer) ==
  /\ \E r \in Settlements(answer.outcome) :
       IF r.status = "resolved"
         THEN /\ dbCategories' = answer.rows
              /\ fetchCategories(s, ctx[s])
              /\ UNCHANGED <<ret, errors, timers>>
         ELSE /\ CategoryFailed(s, r.lastError)
              /\ UNCHANGED <<dbCategories, categories, hookStatus>>
  /\ UNCHANGED <<dbWatchlist, watchlist, watchlistIds, offWatchlist>>

InsertCategorySettle(s) ==
  /\ pc[s] = "insertCategory"
  /\ CategorySettle(s, InsertCategory(dbCategories, ctx[s].name))

UpdateCategorySettle(s) ==
  /\ pc[s] = "updateCategory"
  /\ CategorySettle(s, UpdateCategoryRow(dbCategories, ctx[s].categoryId, ctx[s].name))

CategoriesInit ==
  /\ dbBalance = Row(0, 0)
  /\ dbUnlocks = [m \in Episodes |-> 0]
  /\ userId \in [Sessions -> BOOLEAN] /\ ~userId["s2"]
  /\ balance = [s \in Sessions |-> Undefined]
  /\ unlockedEpisodes = [s \in Sessions |-> {}]
  /\ pc = [s \in Sessions |-> "idle"]
  /\ ctx = [s \in Sessions |-> NoCall]
  /\ ret = [s \in Sessions |-> "none"]
  /\ errors = <<>>
  /\ timers = {}
  /\ player = Unmounted
  /\ app = AppIdle
  /\ hookStatus = [s \in Sessions |-> [h \in Hooks |-> HookIdle]]
  /\ errorsObserved = TRUE /\ timersObserved = FALSE /\ statusObserved = FALSE
  /\ RetryIdle
  /\ dbWatchlist = [m \in Movies |-> NoRow]
  /\ dbCategories \in {Named(ids) : ids \in SUBSET Categories}
  /\ watchlist = [s \in Sessions |-> {}]
  /\ watchlistIds = [s \in Sessions |-> {}]
  /\ categories = [s \in Sessions |-> {}]
  /\ HistoryIdle
  /\ CommentsIdle

CategoriesNext ==
  \/ \E name \in NameInputs : CreateCategory("s1", name)
  \/ InsertCategorySettle("s1")
  \/ \E c \in Categories, name \in NameInputs : UpdateCategory("s1", c, name)
  \/ UpdateCategorySettle("s1")
  \/ FetchCategories("s1")
  \/ FetchCategoriesSettle("s1")
  \/ \E c \in Categories : DeleteCategory("s1", c)
  \/ DeleteCategorySettle("s1")
  \/ \E i \in 1..MaxToasts : RemoveError(i)

SpecCategories == CategoriesInit /\ [][CategoriesNext]_vars

\* The names of the persisted categories are pairwise different.
NamesUnique(rows) == \A r1, r2 \in rows : r1.name = r2.name => r1 = r2

\* The write the running call awaits would give two rows of the user one name.
WouldDuplicate(s) ==
  \/ pc[s] = "insertCategory" /\ NameTaken(dbCategories, "new", trim(ctx[s].name))
  \/ /\ pc[s] = "updateCategory" /\ ctx[s].categoryId \in CategoryIds(dbCategories)
     /\ NameTaken(dbCategories, ctx[s].categoryId, trim(ctx[s].name))

\* C22: the category names of a user stay pairwise different through every
\* createCategory and updateCategory; a create or update that would give two
\* rows one name returns false and leaves the persisted and the local category
\* lists as they were; its toast is a warning without a retry when the error
\* withRetry ended with is the uniqueness violation, and an error toast with a
\* Retry of the call when the last attempt failed on the network instead.
C22_UniqueCategoryNames ==
  /\ [](NamesUnique(dbCategories))
  /\ [][\A s \in Sessions :
          (WouldDuplicate(s) /\ pc'[s] # pc[s])
          => /\ pc'[s] = "idle" /\ ret'[s] = "false"
             /\ dbCategories' = dbCategories /\ categories' = categories
             /\ Messages(errors') =
                  Append(Messages(errors),
                         IF IsDuplicate(ctx'[s].error)
                           THEN createErrorMessage("warning", "none")
                           ELSE createErrorMessage("error", ctx[s].flow))]_vars

\* C22 witness: with categories "a" and "b" persisted and fetched, category c2
\* was to be renamed " a ": the call returned false after a warning toast, and
\* both lists still hold the two categories.
C22_Witness ==
  /\ Returned("s1", "updateCategory", "false")
  /\ ctx["s1"].categoryId = "c2" /\ ctx["s1"].name = " a "
  /\ dbCategories = Named(Categories) /\ categories["s1"] = Named(Categories)
  /\ Messages(errors) = <<createErrorMessage("warning", "none")>>

\* C22 as stated: every create or update that would produce a duplicate name
\* emits a warning toast without a retry.
C22_DuplicateAlwaysWarns ==
  [][\A s \in Sessions :
       (WouldDuplicate(s) /\ pc'[s] # pc[s])
       => Messages(errors') = Append(Messages(errors), createErrorMessage("warning", "none"))]_vars

\* A call of handleUnlockEpisode by session s is running or has just returned.
Unlocking(c) == c.flow = "handleUnlockEpisode"

\* C23: handleUnlockEpisode runs affordability check, confirmation, spendCoins,
\* unlockEpisode in this order. It gets to spendCoins only when the balance of
\* the render covers the cost and the user confirmed; it gets to unlockEpisode
\* only from a spendCoins that returned true, after the balance was written;
\* and a spendCoins that returned false ends the call with no unlock row
\* inserted and the episode still locked locally.
C23_UnlockOrder ==
  [][\A s \in Sessions :
       /\ (Unlocking(ctx'[s]) /\ pc[s] = "idle" /\ <<pc[s], ctx[s], ret[s]>>' # <<pc[s], ctx[s], ret[s]>>)
          => /\ balance[s] # Undefined
             /\ Total(Get(balance[s])) >= unlock_cost(ctx'[s].movieId)
             /\ ctx'[s].confirmed
             /\ pc'[s] = "updateBalance"
             /\ ~ctx'[s].coinsDeducted
             /\ UNCHANGED <<dbBalance, balance, dbUnlocks, unlockedEpisodes>>
       /\ (Unlocking(ctx'[s]) /\ ctx'[s].coinsDeducted /\ ~ctx[s].coinsDeducted)
          => /\ pc[s] = "updateBalance"
             /\ dbBalance' = Row(ctx[s].newCoins, ctx[s].newBonusCoins)
             /\ UNCHANGED <<dbUnlocks, unlockedEpisodes>>
       /\ (Unlocking(ctx[s]) /\ pc[s] = "updateBalance" /\ pc'[s] # pc[s] /\ ~ctx'[s].coinsDeducted)
          => /\ pc'[s] = "idle" /\ ret'[s] = "false"
             /\ UNCHANGED <<dbBalance, balance, dbUnlocks, unlockedEpisodes>>
             /\ ctx[s].movieId \notin unlockedEpisodes'[s]
       /\ (Unlocking(ctx[s]) /\ (dbUnlocks' # dbUnlocks \/ unlockedEpisodes'[s] # unlockedEpisodes[s]))
          => pc[s] = "insertUnlock" /\ ctx[s].coinsDeducted]_vars

\* C23 witness: the user confirmed the unlock of episode 1, which the balance
\* covered, and the update of the balance was rejected: handleUnlockEpisode
\* ended with nothing deducted, no unlock row and the episode locked.
C23_Witness ==
  /\ Returned("s1", "handleUnlockEpisode", "false")
  /\ ctx["s1"].confirmed /\ ~ctx["s1"].coinsDeducted /\ ctx["s1"].error = "network"
  /\ ctx["s1"].movieId = 1 /\ dbUnlocks[1] = 0 /\ 1 \notin unlockedEpisodes["s1"]
  /\ balance["s1"] = ctx["s1"].seen /\ dbBalance = Get(balance["s1"])

\* The functions of useUserCoins that end in updateBalance.
BalanceWriters == {"spendCoins", "addCoins", "handleUnlockEpisode"}

\* C24: spendCoins and addCoins change the local balance only once the remote
\* update has succeeded. When updateBalance fails they return false, the local
\* balance is as before and an 'error' toast with a retry is added; when it
\* succeeds the local coins and bonus_coins are the values just persisted.
C24_LocalAfterRemote ==
  [][\A s \in Sessions :
       /\ (balance'[s] # balance[s] /\ pc[s] \notin {"idle", "fetchBalance"})
          => /\ pc[s] = "updateBalance"
             /\ dbBalance' = Row(ctx[s].newCoins, ctx[s].newBonusCoins)
       /\ (pc[s] = "updateBalance" /\ pc'[s] # pc[s] /\ ctx[s].flow \in BalanceWriters)
          => IF ctx'[s].error # NoError /\ ~ctx'[s].coinsDeducted /\ pc'[s] = "idle"
               THEN /\ ret'[s] = "false"
                    /\ balance'[s] = balance[s]
                    /\ Messages(errors') =
                         Append(Messages(errors), createErrorMessage("error", "updateBalance"))
               ELSE /\ balance'[s] = Some(dbBalance')
                    /\ dbBalance' = Row(ctx[s].newCoins, ctx[s].newBonusCoins)
                    /\ ctx[s].flow # "handleUnlockEpisode" => pc'[s] = "idle" /\ ret'[s] = "true"]_vars

\* C24 witness: an addCoins of one coin and one bonus coin on a loaded balance
\* was rejected by the network: it returned false with the error toast, and the
\* local balance and the row are as loaded.
C24_Witness ==
  /\ Returned("s1", "addCoins", "false") /\ ctx["s1"].error = "network"
  /\ balance["s1"] = ctx["s1"].seen /\ balance["s1"] # Undefined
  /\ ctx["s1"].newCoins = Get(balance["s1"]).coins + 1
  /\ ctx["s1"].newBonusCoins = Get(balance["s1"]).bonus_coins + 1
  /\ Messages(errors) = <<createErrorMessage("error", "updateBalance")>>

----------------------------------------------------------------------------
(* SpecGate: the App's ways into the video player, with the unlock gate *)

offApp == <<ledgerVars, retryVars, watchVars, historyVars, commentVars, player>>

\* movies.is_locked of the movies of this model: episode 1, the one with a cost.
is_locked(m) == m = 1

\* is_unlocked of an episode in MovieDetailPage's list:
\* !episode.is_locked || isEpisodeUnlocked(episode.id)
is_unlocked(s, m) == ~is_locked(m) \/ m \in unlockedEpisodes[s]

\* handleMovieClick(movie): a click on a card of the catalog, the search results,
\* the watchlist or the watch history opens the detail page.
HandleMovieClick(m) ==
  /\ app' = [app EXCEPT !.selectedMovieForDetails = m, !.showMovieDetails = TRUE]
  /\ UNCHANGED offApp

\* handleWatchNow(movie)
handleWatchNow(m) ==
  app' = [app EXCEPT !.selectedMovie = m, !.showVideoPlayer = TRUE, !.showMovieDetails = FALSE]

\* The detail page's Watch Now button: onWatchNow = () =>
\* handleWatchNow(selectedMovieForDetails).
WatchNowClick ==
  /\ app.showMovieDetails /\ app.selectedMovieForDetails # 0
  /\ handleWatchNow(app.selectedMovieForDetails)
  /\ UNCHANGED offApp

\* The hero carousel's Play Now button: onHeroPlayClick = (movie) =>
\* handleWatchNow(movie).
HeroPlayClick(m) ==
  /\ handleWatchNow(m)
  /\ UNCHANGED offApp

\* A click on an episode of the detail page's grid: an unlocked episode is
\* handed to onPlayEpisode, which the App does not pass, a locked one to
\* handleUnlockEpisode.
EpisodeClick(s, episode, confirmed) ==
  /\ app.showMovieDetails
  /\ IF is_unlocked(s, episode)
       THEN UNCHANGED vars
       ELSE IF is_locked(episode)
         THEN HandleUnlockEpisode(s, episode, confirmed)
         ELSE UNCHANGED vars

\* handleCloseMovieDetails and handleCloseVideoPlayer
HandleCloseMovieDetails ==
  /\ app' = [app EXCEPT !.showMovieDetails = FALSE, !.selectedMovieForDetails = 0]
  /\ UNCHANGED offApp

HandleCloseVideoPlayer ==
  /\ app' = [app EXCEPT !.showVideoPlayer = FALSE, !.selectedMovie = 0]
  /\ UNCHANGED offApp

GateInit ==
  /\ Mounted({"s1"}) /\ userId["s1"]
  /\ errorsObserved = FALSE /\ timersObserved = FALSE /\ statusObserved = FALSE
  /\ RetryIdle

GateNext ==
  \/ FetchBalance("s1")
  \/ FetchBalanceSettle("s1")
  \/ FetchUnlockedEpisodes("s1")
  \/ FetchUnlockedEpisodesSettle("s1")
  \/ UpdateBalanceSettle("s1")
  \/ InsertUnlockSettle("s1")
  \/ \E m \in Episodes : HandleMovieClick(m)
  \/ WatchNowClick
  \/ \E m \in Episodes : HeroPlayClick(m)
  \/ \E m \in Episodes, confirmed \in BOOLEAN : EpisodeClick("s1", m, confirmed)
  \/ HandleCloseMovieDetails
  \/ HandleCloseVideoPlayer

SpecGate == GateInit /\ [][GateNext]_vars

\* A click on an episode of the grid never opens the player.
EpisodeGridGated ==
  [][\A m \in Episodes, confirmed \in BOOLEAN :
       EpisodeClick("s1", m, confirmed) => UNCHANGED app]_vars

\* C25: an episode with is_locked = true for which the signed-in user has no
\* unlock row is never the movie shown in the video player.
C25_LockedNeverPlayed ==
  (app.showVideoPlayer /\ app.selectedMovie # 0 /\ is_locked(app.selectedMovie))
  => dbUnlocks[app.selectedMovie] > 0

----------------------------------------------------------------------------
(* SpecMove: one caller moving watchlist items between categories *)

\* The commands the row-level-security policies of user_watchlist cover, each
\* for the rows with auth.uid() = user_id. With row-level security enabled, a
\* command no policy covers sees no row.
WatchlistPolicies == {"SELECT", "INSERT", "DELETE"}

\* moveToCategory(movieId, categoryId) up to the update.
MoveToCategory(s, movieId, categoryId) ==
  /\ pc[s] = "idle"
  /\ LET c == [Call("moveToCategory", 0, movieId, Undefined) EXCEPT !.categoryId = categoryId]
     IN IF ~userId[s]
          THEN Return(s, "false", c)
          ELSE Await(s, "updateWatchlist", c) /\ UNCHANGED ret
  /\ UNCHANGED <<watchVars, errors, timers, hookStatus, offWatchlist>>

\* The database's answer to the update of user_watchlist setting category_id
\* where user_id = userId and movie_id = movieId: the rows the policies let the
\* command see are updated, and an update of no row is no error.
UpdateWatchlist(rows, cats, movieId, categoryId) ==
  IF "UPDATE" \notin WatchlistPolicies \/ rows[movieId] = NoRow
    THEN [rows |-> rows, outcome |-> Resolved("ok")]
    ELSE IF categoryId # NullCategory /\ categoryId \notin cats
      THEN [rows |-> rows, outcome |-> Thrown("foreign key")]
      ELSE [rows |-> [rows EXCEPT ![movieId] = categoryId], outcome |-> Resolved("ok")]

\* moveToCategory from the update on: on success fetchWatchlist is awaited;
\* once the retries are used up an error toast with a Retry and false.
UpdateWatchlistSettle(s) ==
  /\ pc[s] = "updateWatchlist"
  /\ LET upd == UpdateWatchlist(dbWatchlist, CategoryIds(dbCategories),
                                ctx[s].movieId, ctx[s].categoryId)
     IN \E r \in Settlements(upd.outcome) :
          IF r.status = "resolved"
            THEN /\ dbWatchlist' = upd.rows
                 /\ FetchStarts(s, "useWatchlist")
                 /\ Await(s, "fetchWatchlist", ctx[s])
                 /\ UNCHANGED <<watchlist, watchlistIds, ret, errors, timers>>
            ELSE /\ Toasts(<<createErrorMessage("error", "moveToCategory")>>)
                 /\ Return(s, "false", [ctx[s] EXCEPT !.error = r.lastError])
                 /\ UNCHANGED <<dbWatchlist, watchlist, watchlistIds, hookStatus>>
  /\ UNCHANGED <<dbCategories, categories, offWatchlist>>

MoveInit ==
  /\ Mounted({"s1"})
  /\ dbBalance = Row(0, 0)
  /\ errorsObserved = FALSE /\ timersObserved = FALSE /\ statusObserved = FALSE
  /\ RetryIdle

MoveNext ==
  \/ FetchWatchlist("s1")
  \/ FetchWatchlistSettle("s1")
  \/ FetchCategories("s1")
  \/ FetchCategoriesSettle("s1")
  \/ \E m \in Movies, c \in Categories \cup {NullCategory} : AddToWatchlistWithCategory("s1", m, c)
  \/ InsertWatchlistSettle("s1")
  \/ \E m \in Movies : RemoveFromWatchlist("s1", m)
  \/ DeleteWatchlistSettle("s1")
  \/ \E m \in Movies, c \in Categories \cup {NullCategory} : MoveToCategory("s1", m, c)
  \/ UpdateWatchlistSettle("s1")
  \/ \E name \in NameInputs : CreateCategory("s1", name)
  \/ InsertCategorySettle("s1")

SpecMove == MoveInit /\ [][MoveNext]_vars

\* C26: whenever moveToCategory(movieId, categoryId) has returned true, the
\* user's persisted user_watchlist row of the movie has category_id =
\* categoryId.
C26_MovePersisted ==
  \A s \in Sessions :
    Returned(s, "moveToCategory", "true")
    => dbWatchlist[ctx[s].movieId] = ctx[s].categoryId

----------------------------------------------------------------------------
(* SpecCatalog: the paginated catalog with infinite scroll *)

\* fetchMovies(pageNum = 1, limit = 24, append = false)
PageSize == 24
\* The number of rows the catalog query matches, and the pages asked for.
CatalogSize == 60
MaxPage == 4
\* The catalog loads in flight at one time.
MaxLoads == 2

\* The number of rows .range((pageNum - 1) * limit, pageNum * limit - 1) returns.
RangeLength(pageNum) ==
  LET startRange == (pageNum - 1) * PageSize
  IN IF CatalogSize <= startRange THEN 0
     ELSE Min(PageSize, CatalogSize - startRange)

LoadId(a) == CHOOSE id \in 1..MaxLoads : \A l \in a.loads : l.id # id

\* fetchMovies up to the request: the loading flag of the page, and the error cleared.
fetchMovies(a, pageNum, append) ==
  [a EXCEPT !.moviesLoading = IF pageNum = 1 THEN TRUE ELSE @,
            !.loadingMoreMovies = IF pageNum = 1 THEN @ ELSE TRUE,
            !.moviesError = FALSE,
            !.loads = @ \cup {[id |-> LoadId(a), pageNum |-> pageNum, append |-> append]}]

\* The scroll handler's condition (the scroll position apart).
ScrollGuard(a) ==
  /\ a.hasMoreMovies /\ ~a.loadingMoreMovies /\ ~a.moviesLoading
  /\ a.searchQuery = "" /\ a.currentPage = "home"

\* handleScroll near the bottom of the page: setPage(page + 1) and
\* fetchMovies(page + 1, 24, true).
HandleScroll ==
  /\ ScrollGuard(app)
  /\ app.page < MaxPage /\ Cardinality(app.loads) < MaxLoads
  /\ app' = fetchMovies([app EXCEPT !.page = @ + 1], app.page + 1, TRUE)
  /\ UNCHANGED offApp

\* fetchMovies from the request on.
FetchMoviesSettle(id) ==
  /\ \E l \in app.loads, r \in Settlements(Resolved("ok")) :
       LET done == [app EXCEPT !.loads = @ \ {l},
                               !.moviesLoading = IF l.pageNum = 1 THEN FALSE ELSE @,
                               !.loadingMoreMovies = IF l.pageNum = 1 THEN @ ELSE FALSE]
           newMovies == IF RangeLength(l.pageNum) > 0 THEN <<l.pageNum>> ELSE <<>>
       IN l.id = id /\
          IF r.status = "resolved"
            THEN app' = [done EXCEPT
                           !.movies = IF l.append /\ l.pageNum > 1 THEN @ \o newMovies
                                      ELSE newMovies,
                           !.hasMoreMovies = RangeLength(l.pageNum) = PageSize]
            ELSE app' = [done EXCEPT
                           !.moviesError = TRUE,
                           !.retries = @ \cup {[pageNum |-> l.pageNum, append |-> l.append]},
                           !.movies = IF l.append THEN @ ELSE <<>>]
  /\ UNCHANGED offApp

\* The Retry button of the toast of a failed load: the toast is removed and
\* fetchMovies(pageNum, limit, append) called again.
RetryFetchMovies(pageNum, append) ==
  /\ [pageNum |-> pageNum, append |-> append] \in app.retries
  /\ Cardinality(app.loads) < MaxLoads
  /\ app' = fetchMovies([app EXCEPT !.retries = @ \ {[pageNum |-> pageNum, append |-> append]}],
                        pageNum, append)
  /\ UNCHANGED offApp

\* The Try Again button of the error state and the Refresh button of the empty
\* state: fetchMovies(1, 24, false).
TryAgainClick ==
  /\ ~app.moviesLoading /\ (app.moviesError \/ app.movies = <<>>)
  /\ Cardinality(app.loads) < MaxLoads
  /\ app' = fetchMovies(app, 1, FALSE)
  /\ UNCHANGED offApp

\* The debounced search effect: the cleanup clears the timer of the render before,
\* and a new timer of 400 ms is set for performSearch(searchQuery) with the
\* query and filters of this render.
searchEffect(a) ==
  [a EXCEPT !.searchTimers = {[query |-> a.searchQuery, filters |-> a.filters, after |-> 400]},
            !.stable = 0]

\* The search box: setSearchQuery(e.target.value).
SetSearchQuery(q) ==
  /\ app.searchQuery # q
  /\ app' = searchEffect([app EXCEPT !.searchQuery = q])
  /\ UNCHANGED offApp

\* The App after its mount effects: fetchMovies(1, 24, false) is in flight and
\* the first search timer is pending.
AppMounted == searchEffect(fetchMovies(AppIdle, 1, FALSE))

CatalogInit ==
  /\ dbBalance = Row(0, 0)
  /\ dbUnlocks = [m \in Episodes |-> 0]
  /\ userId = [s \in Sessions |-> s = "s1"]
  /\ balance = [s \in Sessions |-> Undefined]
  /\ unlockedEpisodes = [s \in Sessions |-> {}]
  /\ pc = [s \in Sessions |-> "idle"]
  /\ ctx = [s \in Sessions |-> NoCall]
  /\ ret = [s \in Sessions |-> "none"]
  /\ errors = <<>>
  /\ timers = {}
  /\ player = Unmounted
  /\ app = AppMounted
  /\ hookStatus = [s \in Sessions |-> [h \in Hooks |-> HookIdle]]
  /\ WatchlistIdle
  /\ HistoryIdle
  /\ CommentsIdle
  /\ errorsObserved = FALSE /\ timersObserved = FALSE /\ statusObserved = FALSE
  /\ RetryIdle

CatalogNext ==
  \/ HandleScroll
  \/ \E id \in 1..MaxLoads : FetchMoviesSettle(id)
  \/ \E pageNum \in 1..MaxPage, append \in BOOLEAN : RetryFetchMovies(pageNum, append)
  \/ TryAgainClick
  \/ \E q \in {"", "a"} : SetSearchQuery(q)

SpecCatalog == CatalogInit /\ [][CatalogNext]_vars

\* The catalog holds pages 1..k, each once, in order.
ContiguousPrefix(movies) == \A i \in 1..Len(movies) : movies[i] = i

\* C27: after any sequence of catalog loads the list is pages 1..k of the
\* remote ordering, no page skipped and none appended twice; and a load-more is
\* never started while another load is in flight, while hasMoreMovies is false
\* or while a search query is active.
C27_ContiguousPages ==
  /\ [](ContiguousPrefix(app.movies))
  /\ [][HandleScroll => (app.loads = {} /\ app.hasMoreMovies /\ app.searchQuery = "")]_vars

----------------------------------------------------------------------------
(* SpecSearch: the debounced remote search *)

\* The searches in flight at one time.
MaxSearches == 2

SearchInputs == {"", " ", "a", "b"}
FilterInputs == {"All", "Drama"}

\* A filter or the sort option changes: setSelectedGenreFilter,
\* setSelectedThemeFilter, setSortOption.
SetFilter(f) ==
  /\ app.filters # f
  /\ app' = searchEffect([app EXCEPT !.filters = f])
  /\ UNCHANGED offApp

\* Time passes, no further than the pending search timer allows.
SearchElapse(d) ==
  /\ \A t \in app.searchTimers : d <= t.after
  /\ app.searchTimers # {} \/ app.stable < 400
  /\ app' = [app EXCEPT !.searchTimers = {[t EXCEPT !.after = @ - d] : t \in @},
                        !.stable = Min(400, @ + d)]
  /\ UNCHANGED offApp

SearchId(a) == CHOOSE id \in 1..MaxSearches : \A r \in a.searches : r.id # id

\* Mutant of performSearch: a blank query is sent like any other.
performSearch_NoBlankCheck(a, query, filters) ==
  [a EXCEPT !.searchLoading = TRUE, !.searchError = FALSE,
            !.searches = @ \cup {[id |-> SearchId(a), query |-> query, filters |-> filters]},
            !.lastSearch = <<[query |-> query, filters |-> filters]>>]

\* performSearch(query) up to the request, in a render with the filters
\* `filters`: a blank query clears the results, any other is sent.
performSearch(a, query, filters) ==
  IF trim(query) = ""
    THEN [a EXCEPT !.filteredMovies = <<>>, !.searchLoading = FALSE, !.searchError = FALSE]
    ELSE [a EXCEPT !.searchLoading = TRUE, !.searchError = FALSE,
                   !.searches = @ \cup {[id |-> SearchId(a), query |-> query, filters |-> filters]},
                   !.lastSearch = <<[query |-> query, filters |-> filters]>>]

\* The search timer fires: performSearch(searchQuery) of the render that set it.
SearchTimerFires ==
  \E t \in app.searchTimers :
    /\ t.after = 0
    /\ Cardinality(app.searches) < MaxSearches
    /\ app' = performSearch([app EXCEPT !.searchTimers = @ \ {t}], t.query, t.filters)
    /\ UNCHANGED offApp

\* performSearch from the request on: the results are filtered and sorted with
\* the filters of the render the call was made from and shown; on failure a
\* toast with Retry Search, and the results are cleared.
PerformSearchSettle(id) ==
  /\ \E s \in app.searches, r \in Settlements(Resolved("ok")) :
       /\ s.id = id
       /\ LET done == [app EXCEPT !.searches = @ \ {s}, !.searchLoading = FALSE]
              call == [query |-> s.query, filters |-> s.filters]
          IN IF r.status = "resolved"
               THEN app' = [done EXCEPT !.filteredMovies = <<call>>]
               ELSE app' = [done EXCEPT !.searchError = TRUE,
                                        !.searchRetries = @ \cup {call},
                                        !.filteredMovies = <<>>]
  /\ UNCHANGED offApp

\* The Retry Search button of the toast of a failed search: the toast is removed
\* and performSearch(query) called again.
RetrySearch(query, filters) ==
  /\ [query |-> query, filters |-> filters] \in app.searchRetries
  /\ Cardinality(app.searches) < MaxSearches
  /\ app' = performSearch([app EXCEPT !.searchRetries = @ \ {[query |-> query, filters |-> filters]}],
                          query, filters)
  /\ UNCHANGED offApp

SearchNext ==
  \/ \E q \in SearchInputs : SetSearchQuery(q)
  \/ \E f \in FilterInputs : SetFilter(f)
  \/ \E k \in 1..4 : SearchElapse(k * 100)
  \/ SearchTimerFires
  \/ \E id \in 1..MaxSearches : PerformSearchSettle(id)
  \/ \E q \in SearchInputs, f \in FilterInputs : RetrySearch(q, f)

SpecSearch == CatalogInit /\ [][SearchNext]_vars

\* A step issues a remote search.
SearchIssued == app'.searches \ app.searches # {}

C29_LatestWins ==
  (app.searches = {} /\ app.filteredMovies # <<>>)
  => app.filteredMovies = app.lastSearch

----------------------------------------------------------------------------
(* SpecProgress: the player's periodic progress save, with and without a user *)

\* The App renders again while the player is mounted: handleProgressUpdate is
\* a new function, so the progress effect runs its cleanup and its body.
AppRenders ==
  /\ player.mounted
  /\ player' = progressEffect(clearInterval(player))
  /\ UNCHANGED offPlayer

\* handleEnded: setIsPlaying(false), onProgressUpdate(movie.id, duration,
\* duration), and playNextEpisode, which calls onClose as the App passes no
\* onEpisodeEnded: handleCloseVideoPlayer, and the player unmounts.
HandleEnded(s) ==
  /\ player.mounted /\ player.duration > 0
  /\ pc[s] = "idle"
  /\ handleProgressUpdate(s, 1, player.duration, player.duration)
  /\ app' = [app EXCEPT !.showVideoPlayer = FALSE, !.selectedMovie = 0]
  /\ player' = [clearTimeout(clearInterval(player)) EXCEPT
                  !.mounted = FALSE, !.isPlaying = FALSE, !.duration = 0,
                  !.showControls = FALSE, !.reported = FALSE,
                  !.progressUpdateIntervalRef = 0, !.controlsTimeoutRef = 0]
  /\ UNCHANGED offProgress

ProgressInit ==
  /\ Mounted({"s1"})
  /\ dbBalance = Row(0, 0)
  /\ errorsObserved = FALSE /\ timersObserved = FALSE /\ statusObserved = FALSE
  /\ RetryIdle

ProgressNext ==
  \/ MountPlayer
  \/ UnmountPlayer
  \/ LoadedMetadata
  \/ HandlePlay
  \/ HandlePause
  \/ MouseMove
  \/ MouseLeave
  \/ ControlsTimeoutFires
  \/ AppRenders
  \/ \E t \in ProgressValues : ProgressIntervalFires("s1", t)
  \/ HandleEnded("s1")
  \/ UpsertHistoryAttempt("s1")
  \/ FetchWatchHistorySettle("s1")

SpecProgress == ProgressInit /\ [][ProgressNext]_vars

\* The video is playing with a known duration.
Playing(p) == p.mounted /\ p.isPlaying /\ p.duration > 0

\* A step in which session s issues the upsert of addToWatchHistory.
UpsertIssued(s) == pc[s] = "idle" /\ pc'[s] = "upsertHistory"

\* C30: while the video is playing with a known duration > 0 exactly one
\* progress interval is active; while it is paused, before the duration is
\* known and after the player has unmounted none is. A progress upsert is
\* issued by the interval only during playback, apart from that only by
\* handleEnded for the whole duration, and never without a signed-in user.
C30_ProgressWhilePlaying ==
  /\ [](Cardinality(player.intervals) = IF Playing(player) THEN 1 ELSE 0)
  /\ [][\A s \in Sessions :
          /\ UpsertIssued(s)
             => /\ userId[s]
                /\ \/ Playing(player) /\ player.intervals # {} /\ player'.intervals = player.intervals
                   \/ /\ ~player'.mounted
                      /\ ctx'[s].progressSeconds = ctx'[s].totalDurationSeconds
          /\ (~userId[s] /\ player'.reported /\ ~player.reported) => pc'[s] = "idle"]_vars

\* C30 witness: the video is playing with its duration known, the one interval
\* has fired at 1.9 s and the upsert of that position is in flight.
C30_Witness ==
  /\ Playing(player) /\ Cardinality(player.intervals) = 1 /\ player.reported
  /\ pc["s1"] = "upsertHistory" /\ ctx["s1"].flow = "addToWatchHistory"
  /\ ctx["s1"].progressSeconds = 19 /\ ctx["s1"].totalDurationSeconds = 27
  /\ dbHistory[1] = <<>>

====
